---- MODULE Spec2Model ----
(***************************************************************************)
(* Model of the provider registry of podman-desktop                        *)
(* (packages/main/src/plugin/provider-registry.ts, the later revision in   *)
(* src/unnamed/part_001, lines 486-1089).                                  *)
(*                                                                         *)
(* The registry runs on one event loop: every handler below is one atomic  *)
(* action up to its first await; what follows an await is a second action  *)
(* (the continuation), so that other handlers interleave exactly where the *)
(* code suspends.  Listeners and provider-supplied methods are external:   *)
(* the model records what was delivered to them and what was invoked, and  *)
(* draws their outcomes from small sets.                                   *)
(***************************************************************************)
EXTENDS Integers, Sequences, FiniteSets, Bags, TLC

VARIABLES
  count,                       \* ProviderRegistry.count
  providers,                   \* keys of ProviderRegistry.providers (insertion order = ascending id)
  impl,                        \* the ProviderImpl objects ever created, by internalId
  providerStatuses,            \* ProviderRegistry.providerStatuses
  providerLifecycles,          \* ProviderRegistry.providerLifecycles
  providerLifecycleContexts,   \* ProviderRegistry.providerLifecycleContexts
  providerInstallations,       \* ProviderRegistry.providerInstallations
  providerUpdates,             \* ProviderRegistry.providerUpdates
  providerAutostarts,          \* ProviderRegistry.providerAutostarts
  connectionLifecycleContexts, \* keys of ProviderRegistry.connectionLifecycleContexts
  listeners,                   \* ProviderRegistry.listeners
  lifecycleListeners,          \* ProviderRegistry.lifecycleListeners
  containerConnectionLifecycleListeners,
  handles,                     \* bag of the Disposables returned and not yet disposed
  calls,                       \* bag of lifecycle calls suspended at their await
  preflight,                   \* the runPreflightChecks call in progress (or NONE)
  autostart,                   \* the runAutostart call in progress (or NONE)
  tickLog,                     \* observer: the polls of the provider whose lifecycle was registered
                               \* last (what was polled, the baseline, whether the branch was taken,
                               \* how many deliveries were made, whether each listener got just one)
  imageRegistry,               \* ImageRegistry.registries and ImageRegistry.providers
  last                         \* what the last handler did: result, events, invocations

\* The maps and lists the registry owns
registry == <<count, providers, impl, providerStatuses, providerLifecycles,
              providerLifecycleContexts, providerInstallations, providerUpdates,
              providerAutostarts, connectionLifecycleContexts, listeners,
              lifecycleListeners, containerConnectionLifecycleListeners>>

vars == <<count, providers, impl, providerStatuses, providerLifecycles,
          providerLifecycleContexts, providerInstallations, providerUpdates,
          providerAutostarts, connectionLifecycleContexts, listeners,
          lifecycleListeners, containerConnectionLifecycleListeners, handles,
          calls, preflight, autostart, tickLog, imageRegistry, last>>

-----------------------------------------------------------------------------
(* Bounds of the model *)

MaxProviders == 2
MaxListeners == 2
MaxCalls == 2
MaxHandles == 2
MaxTickLog == 3
MaxChecks == 3
MaxConnections == 2
MaxRegistries == 2

-----------------------------------------------------------------------------
(* Values *)

NONE == "undefined"
CTX == "LifecycleContextImpl"

PIDS == 0 .. (MaxProviders - 1)

\* ProviderStatus values used by the model (two of the enum's values are
\* enough to tell "same" from "different").
STATUSES == {"started", "stopped"}

\* Provider names, as sequences of UTF-16 code units: "a", "B", "Aa", "ab".
NAMES == { <<97>>, <<66>>, <<65, 97>>, <<97, 98>> }
PlainName == <<97>>

LISTENERS == {"l1", "l2"}

\* ProviderLifecycle objects: initialize is optional, start/stop/status are
\* not.  L1 has an initialize method, L2 has none.
AUTOSTARTS == {"A1", "A2"}

\* Parameters handed to createProviderConnection
PARAMS == {"params1", "params2"}

\* Container connections: one whose lifecycle has start and delete, one whose
\* lifecycle has stop only, one without a lifecycle.  The first two are at
\* the same socket.
CONNECTIONS == {"cStart", "cStop", "cPlain"}
hasLifecycle(connection) == connection # "cPlain"
hasStart(connection) == connection = "cStart"
hasStop(connection) == connection = "cStop"
hasDelete(connection) == connection = "cStart"
socketPath(connection) == IF connection = "cPlain" THEN "/run/b.sock" ELSE "/run/a.sock"

\* ProviderContainerConnectionInfo values handed to the connection methods
INFOS == { [name |-> "a", socketPath |-> "/run/a.sock"],
           [name |-> "b", socketPath |-> "/run/b.sock"] }
LIFECYCLES == {"L1", "L2"}
hasInitializeAlways(lifecycle) == TRUE
hasInitialize(lifecycle) == lifecycle = "L1"

NOPID == -1

\* ProviderInstallation / ProviderUpdate objects, known by their optional
\* preflightChecks method: the number of checks preflightChecks() returns, or
\* NoPreflightChecks when the object has no such method.  NoCapability is
\* what Map.get returns when nothing is registered.
NoCapability == -2
NoPreflightChecks == -1
CAPABILITIES == NoPreflightChecks .. MaxChecks

\* What check.execute() can do: resolve with a CheckResult, or throw.
CHECKRESULTS == { [successful |-> TRUE, description |-> "passed"],
                  [successful |-> FALSE, description |-> "not met"] }
THROWN == { [kind |-> "Error", text |-> "boom"],
            [kind |-> "object", text |-> "[object Object]"],
            [kind |-> "null", text |-> NONE],
            [kind |-> "string", text |-> "oops"] }

Min(S) == CHOOSE x \in S : \A y \in S : x <= y

\* The keys of a Map or the elements of a Set of small integers, in the
\* order Array.from lists them when they were inserted in ascending order.
RECURSIVE Ascending(_)
Ascending(S) ==
  IF S = {} THEN <<>> ELSE <<Min(S)>> \o Ascending(S \ {Min(S)})

RECURSIVE Flatten(_)
Flatten(ss) ==
  IF ss = <<>> THEN <<>> ELSE Head(ss) \o Flatten(Tail(ss))

-----------------------------------------------------------------------------
(* ProviderImpl (provider-impl.ts is not among the sources) *)

NoProviderImpl ==
  [name |-> <<>>, status |-> NONE, containerConnections |-> <<>>,
   containerProviderConnectionFactory |-> FALSE]

NewProviderImpl(name, status) ==
  [name |-> name, status |-> status, containerConnections |-> <<>>,
   containerProviderConnectionFactory |-> FALSE]

updateStatusKept(provider, status) == provider

updateStatus(provider, status) == [provider EXCEPT !.status = status]

-----------------------------------------------------------------------------
(* Projections *)

getProviderInfoOfUpdates(id, im, lifecycles, installations, updates) ==
  [ internalId |-> id,
    name |-> im[id].name,
    status |-> im[id].status,
    containerConnections |-> im[id].containerConnections,
    containerProviderConnectionCreation |-> im[id].containerProviderConnectionFactory,
    installationSupport |-> updates[id] # NoCapability,
    updateInfo |-> updates[id] # NoCapability,
    lifecycleMethods |-> IF lifecycles[id] # NONE THEN <<"start", "stop">> ELSE <<>> ]

getProviderInfo(id, im, lifecycles, installations, updates) ==
  [ internalId |-> id,
    name |-> im[id].name,
    status |-> im[id].status,
    containerConnections |-> im[id].containerConnections,
    containerProviderConnectionCreation |-> im[id].containerProviderConnectionFactory,
    installationSupport |-> installations[id] # NoCapability,
    updateInfo |-> updates[id] # NoCapability,
    \* <<>> stands for the field not being set
    lifecycleMethods |-> IF lifecycles[id] # NONE THEN <<"start", "stop">> ELSE <<>> ]

\* getProviderInfo in the current state
Info(id) ==
  getProviderInfo(id, impl, providerLifecycles, providerInstallations, providerUpdates)

\* list.forEach(listener => listener(name, info)): one delivery per entry of
\* the list, in list order.
NotifyReversed(list, name, info) ==
  [i \in 1 .. Len(list) |->
     [to |-> list[Len(list) + 1 - i], name |-> name, info |-> info]]

Notify(list, name, info) ==
  [i \in 1 .. Len(list) |-> [to |-> list[i], name |-> name, info |-> info]]

\* A call suspended at its await: the public method it came in by, the
\* provider, and what it invoked and awaits.
Call(via, id, target, method) ==
  [via |-> via, pid |-> id, target |-> target, method |-> method]

NoCall == Call(NONE, NOPID, NONE, NONE)

\* What a handler did: its result (the message of the error it threw, or ok),
\* the events it delivered, the capability methods it invoked, the telemetry
\* it tracked, what it returned; for the continuation of a suspended call,
\* the call; and, where a handler is observed in sequence, the handler that
\* ran just before it; for a call that changes a listener list, the list it
\* found (before).
Quiet(op, pid) ==
  [op |-> op, pid |-> pid, result |-> "ok", delivered |-> <<>>,
   invoked |-> <<>>, tracked |-> <<>>, polled |-> <<>>, ret |-> NONE,
   infos |-> <<>>, call |-> NoCall, after |-> [op |-> NONE, pid |-> NOPID],
   args |-> NONE, steps |-> <<>>, before |-> <<>>]

\* No runPreflightChecks call, no runAutostart call in progress.
NoPreflight ==
  [state |-> "idle", pid |-> NOPID, checks |-> 0, check |-> 0, log |-> <<>>,
   thrown |-> <<>>]
NoAutostart ==
  [state |-> "idle", at |-> [p \in PIDS |-> NONE],
   starts |-> [p \in PIDS |-> "none"], invoked |-> [p \in PIDS |-> 0]]

-----------------------------------------------------------------------------
(* Initial state: the registry right after its constructor *)

InitRegistry ==
  /\ count = 0
  /\ providers = {}
  /\ impl = [p \in PIDS |-> NoProviderImpl]
  /\ providerStatuses = [p \in PIDS |-> NONE]
  /\ providerLifecycles = [p \in PIDS |-> NONE]
  /\ providerLifecycleContexts = [p \in PIDS |-> NONE]
  /\ providerInstallations = [p \in PIDS |-> NoCapability]
  /\ providerUpdates = [p \in PIDS |-> NoCapability]
  /\ providerAutostarts = [p \in PIDS |-> NONE]
  /\ connectionLifecycleContexts = {}
  /\ listeners = <<>>
  /\ lifecycleListeners = <<>>
  /\ containerConnectionLifecycleListeners = <<>>
  /\ handles = EmptyBag
  /\ calls = EmptyBag
  /\ preflight = NoPreflight
  /\ autostart = NoAutostart
  /\ imageRegistry = [registries |-> <<>>, providers |-> {}]
  /\ last = Quiet("constructor", NOPID)

Init ==
  /\ InitRegistry
  /\ tickLog = [on |-> FALSE, pid |-> NOPID, polls |-> <<>>]

-----------------------------------------------------------------------------
(* Provider creation and disposal *)

\* `${this.count}`: the decimal digits of the counter, as character codes.
\* The maps are keyed by this string; the model keys them by the number.
RECURSIVE internalId(_)
internalId(n) ==
  IF n < 10 THEN <<48 + n>> ELSE Append(internalId(n \div 10), 48 + (n % 10))

\* this.count++
countKept(c) == c

countIncremented(c) == c + 1

\* this.providers.set(id, providerImpl) comes before this.listeners.forEach:
\* the ids the providers map holds while the listeners run
providersBeforeSet(before, after) == before

providersWhenNotified(before, after) == after

createProvider(name, status) ==
  /\ count < MaxProviders
  /\ LET id == count
         impl2 == [impl EXCEPT ![id] = NewProviderImpl(name, status)]
     IN /\ impl' = impl2
        /\ count' = countIncremented(count)
        /\ providers' = providers \cup {id}
        /\ last' = [Quiet("createProvider", id) EXCEPT
                      !.delivered = Notify(listeners, "provider:create",
                                      getProviderInfo(id, impl2, providerLifecycles,
                                                      providerInstallations, providerUpdates)),
                      !.args = providersWhenNotified(providers, providers \cup {id}),
                      !.tracked = << <<"createProvider", name, status>> >>]
  /\ UNCHANGED <<imageRegistry, providerStatuses, providerLifecycles, providerLifecycleContexts,
                 providerInstallations, providerUpdates, providerAutostarts,
                 connectionLifecycleContexts, listeners, lifecycleListeners,
                 containerConnectionLifecycleListeners, handles, calls, preflight,
                 autostart, tickLog>>

\* The argument is a ProviderImpl object: any provider ever created, tracked or not.
disposeProvider(id) ==
  /\ id < count
  /\ providers' = providers \ {id}
  /\ last' = [Quiet("disposeProvider", id) EXCEPT
                !.delivered = Notify(listeners, "provider:delete", Info(id))]
  /\ UNCHANGED <<imageRegistry, count, impl, providerStatuses, providerLifecycles,
                 providerLifecycleContexts, providerInstallations, providerUpdates,
                 providerAutostarts, connectionLifecycleContexts, listeners,
                 lifecycleListeners, containerConnectionLifecycleListeners, handles,
                 calls, preflight, autostart, tickLog>>

-----------------------------------------------------------------------------
(* Disposable (types/disposable.ts is not among the sources): dispose() runs
   the callback once; a disposed handle does nothing.  A handle is known by
   what its callback closes over: the provider's internalId and, for a
   lifecycle, the lifecycle object.  Handles with the same closure behave
   alike, so the live ones are kept as a bag, at most MaxHandles of a kind. *)

Handle(kind, id, cap) == [kind |-> kind, pid |-> id, cap |-> cap]

CanHandle(h) == CopiesIn(h, handles) < MaxHandles

NewHandle(h) == handles (+) SetToBag({h})

Disposed(h) == handles (-) SetToBag({h})

\* Map.set(key, value): the entry of the key is the value, whatever it was
mapSetKept(map, key, value) == map

mapSet(map, key, value) == [map EXCEPT ![key] = value]

-----------------------------------------------------------------------------
(* Lifecycle registration *)

\* The maps are written before this.lifecycleListeners.forEach, in
\* registerLifecycle and in the callback of its Disposable: the
\* providerLifecycles the info of the event is made from
lifecyclesBeforeWrite(before, after) == before

lifecyclesWhenNotified(before, after) == after

\* new LifecycleContextImpl(), stored by registerLifecycle
newContextMissing == NONE

newContext == CTX

registerLifecycle(id, lifecycle) ==
  /\ id < count
  /\ CanHandle(Handle("lifecycle", id, lifecycle))
  /\ LET lifecycles2 == mapSet(providerLifecycles, id, lifecycle)
     IN /\ providerLifecycles' = lifecycles2
        /\ providerLifecycleContexts' = [providerLifecycleContexts EXCEPT ![id] = newContext]
        /\ last' = [Quiet("registerLifecycle", id) EXCEPT
                      !.args = lifecycle,
                      !.delivered = Notify(lifecycleListeners, "provider:register-lifecycle",
                                      getProviderInfo(id, impl,
                                        lifecyclesWhenNotified(providerLifecycles, lifecycles2),
                                        providerInstallations, providerUpdates))]
  /\ handles' = NewHandle(Handle("lifecycle", id, lifecycle))
  /\ tickLog' = IF tickLog.on THEN [tickLog EXCEPT !.pid = id, !.polls = <<>>]
                               ELSE tickLog
  /\ UNCHANGED <<imageRegistry, count, providers, impl, providerStatuses, providerInstallations,
                 providerUpdates, providerAutostarts, connectionLifecycleContexts,
                 listeners, lifecycleListeners, containerConnectionLifecycleListeners,
                 calls, preflight, autostart>>

\* The callback of the Disposable registerLifecycle returned.
disposeLifecycle(h) ==
  /\ BagIn(h, handles)
  /\ h.kind = "lifecycle"
  /\ LET lifecycles2 == [providerLifecycles EXCEPT ![h.pid] = NONE]
     IN /\ providerLifecycles' = lifecycles2
        /\ providerLifecycleContexts' = [providerLifecycleContexts EXCEPT ![h.pid] = NONE]
        /\ last' = [Quiet("disposeLifecycle", h.pid) EXCEPT
                      !.delivered = Notify(lifecycleListeners, "provider:removal-lifecycle",
                                      getProviderInfo(h.pid, impl,
                                        lifecyclesWhenNotified(providerLifecycles, lifecycles2),
                                        providerInstallations, providerUpdates))]
  /\ handles' = Disposed(h)
  /\ UNCHANGED <<imageRegistry, count, providers, impl, providerStatuses, providerInstallations,
                 providerUpdates, providerAutostarts, connectionLifecycleContexts,
                 listeners, lifecycleListeners, containerConnectionLifecycleListeners,
                 calls, preflight, autostart, tickLog>>

-----------------------------------------------------------------------------
(* Installation and update registration *)

registerInstallation(id, installation) ==
  /\ id < count
  /\ CanHandle(Handle("installation", id, NONE))
  /\ providerInstallations' = mapSet(providerInstallations, id, installation)
  /\ handles' = NewHandle(Handle("installation", id, NONE))
  /\ last' = [Quiet("registerInstallation", id) EXCEPT !.args = installation]
  /\ UNCHANGED <<imageRegistry, count, providers, impl, providerStatuses, providerLifecycles,
                 providerLifecycleContexts, providerUpdates, providerAutostarts,
                 connectionLifecycleContexts, listeners, lifecycleListeners,
                 containerConnectionLifecycleListeners, calls, preflight, autostart,
                 tickLog>>

disposeInstallation(h) ==
  /\ BagIn(h, handles)
  /\ h.kind = "installation"
  /\ providerInstallations' = [providerInstallations EXCEPT ![h.pid] = NoCapability]
  /\ handles' = Disposed(h)
  /\ last' = Quiet("disposeInstallation", h.pid)
  /\ UNCHANGED <<imageRegistry, count, providers, impl, providerStatuses, providerLifecycles,
                 providerLifecycleContexts, providerUpdates, providerAutostarts,
                 connectionLifecycleContexts, listeners, lifecycleListeners,
                 containerConnectionLifecycleListeners, calls, preflight, autostart,
                 tickLog>>

registerUpdate(id, update) ==
  /\ id < count
  /\ CanHandle(Handle("update", id, NONE))
  /\ providerUpdates' = mapSet(providerUpdates, id, update)
  /\ handles' = NewHandle(Handle("update", id, NONE))
  /\ last' = [Quiet("registerUpdate", id) EXCEPT !.args = update]
  /\ UNCHANGED <<imageRegistry, count, providers, impl, providerStatuses, providerLifecycles,
                 providerLifecycleContexts, providerInstallations, providerAutostarts,
                 connectionLifecycleContexts, listeners, lifecycleListeners,
                 containerConnectionLifecycleListeners, calls, preflight, autostart,
                 tickLog>>

disposeUpdate(h) ==
  /\ BagIn(h, handles)
  /\ h.kind = "update"
  /\ providerUpdates' = [providerUpdates EXCEPT ![h.pid] = NoCapability]
  /\ handles' = Disposed(h)
  /\ last' = Quiet("disposeUpdate", h.pid)
  /\ UNCHANGED <<imageRegistry, count, providers, impl, providerStatuses, providerLifecycles,
                 providerLifecycleContexts, providerInstallations, providerAutostarts,
                 connectionLifecycleContexts, listeners, lifecycleListeners,
                 containerConnectionLifecycleListeners, calls, preflight, autostart,
                 tickLog>>

-----------------------------------------------------------------------------
(* runPreflightChecks.  preflight.log is what the call did to its status
   callback and to the checks, in order; one call is followed at a time. *)

CallbackEntry(what, check, successful, description) ==
  [what |-> what, check |-> check, successful |-> successful,
   description |-> description]

\* statusCallback.startCheck({name}) followed by check.execute()
StartOf(check) ==
  << CallbackEntry("startCheck", check, FALSE, NONE),
     CallbackEntry("execute", check, FALSE, NONE) >>

\* err instanceof Error ? err.message
\*   : typeof err === 'object' ? err?.toString() : 'unknown error'
descriptionOfAlwaysUnknown(err) == "unknown error"

descriptionOf(err) ==
  IF err.kind = "Error" THEN err.text
  ELSE IF err.kind \in {"object", "null"} THEN err.text
  ELSE "unknown error"

\* runUpdateChecks ? this.providerUpdates.get(id) : this.providerInstallations.get(id)
installOrUpdateSwapped(id, runUpdateChecks) ==
  IF runUpdateChecks THEN providerInstallations[id] ELSE providerUpdates[id]

installOrUpdate(id, runUpdateChecks) ==
  IF runUpdateChecks THEN providerUpdates[id] ELSE providerInstallations[id]

\* if (!installOrUpdate) throw new Error(`No matching installation ...`)
notRegisteredNever(cap) == FALSE

notRegistered(cap) == cap = NoCapability

\* The capability lookup, the preflightChecks test and the first iteration of
\* the loop, up to await check.execute().
runPreflightChecks(id, runUpdateChecks) ==
  /\ preflight.state # "running"
  /\ LET cap == installOrUpdate(id, runUpdateChecks)
         call == [NoPreflight EXCEPT !.pid = id]
     IN IF notRegistered(cap)
          THEN /\ preflight' = [call EXCEPT !.state = "rejected"]
               /\ last' = [Quiet("runPreflightChecks", id) EXCEPT
                             !.args = runUpdateChecks,
                             !.result = "No matching installation for provider"]
        ELSE IF cap = NoPreflightChecks
          THEN /\ preflight' = [call EXCEPT !.state = "false", !.checks = cap]
               /\ last' = [Quiet("runPreflightChecks", id) EXCEPT
                             !.args = runUpdateChecks, !.ret = "false"]
        ELSE IF cap = 0
          THEN /\ preflight' = [call EXCEPT !.state = "true"]
               /\ last' = [Quiet("runPreflightChecks", id) EXCEPT
                             !.args = runUpdateChecks, !.ret = "true"]
        ELSE /\ preflight' = [call EXCEPT !.state = "running", !.checks = cap,
                                          !.check = 1, !.log = StartOf(1)]
             /\ last' = [Quiet("runPreflightChecks", id) EXCEPT
                             !.args = runUpdateChecks, !.ret = "pending"]
  /\ UNCHANGED <<imageRegistry, count, providers, impl, providerStatuses, providerLifecycles,
                 providerLifecycleContexts, providerInstallations, providerUpdates,
                 providerAutostarts, connectionLifecycleContexts, listeners,
                 lifecycleListeners, containerConnectionLifecycleListeners, handles,
                 calls, autostart, tickLog>>

\* if (!checkResult.successful) return false
stopsSequenceNever(checkResult) == FALSE

stopsSequence(checkResult) == ~checkResult.successful

\* check.execute() resolved with checkResult: endCheck, then either the next
\* iteration up to its await, or the return.
checkResolved(checkResult) ==
  /\ preflight.state = "running"
  /\ LET k == preflight.check
         ended == Append(preflight.log,
                    CallbackEntry("endCheck", k, checkResult.successful,
                                  checkResult.description))
     IN IF stopsSequence(checkResult)
          THEN /\ preflight' = [preflight EXCEPT !.state = "false", !.log = ended]
               /\ last' = [Quiet("runPreflightChecks:endCheck", preflight.pid) EXCEPT
                             !.ret = "false"]
        ELSE IF k = preflight.checks
          THEN /\ preflight' = [preflight EXCEPT !.state = "true", !.log = ended]
               /\ last' = [Quiet("runPreflightChecks:endCheck", preflight.pid) EXCEPT
                             !.ret = "true"]
        ELSE /\ preflight' = [preflight EXCEPT !.check = k + 1,
                                               !.log = ended \o StartOf(k + 1)]
             /\ last' = [Quiet("runPreflightChecks:endCheck", preflight.pid) EXCEPT
                           !.ret = "pending"]
  /\ UNCHANGED <<imageRegistry, count, providers, impl, providerStatuses, providerLifecycles,
                 providerLifecycleContexts, providerInstallations, providerUpdates,
                 providerAutostarts, connectionLifecycleContexts, listeners,
                 lifecycleListeners, containerConnectionLifecycleListeners, handles,
                 calls, autostart, tickLog>>

\* check.execute() threw err: the catch block.
checkThrew(err) ==
  /\ preflight.state = "running"
  /\ preflight' = [preflight EXCEPT
                     !.state = "false",
                     !.thrown = <<err>>,
                     !.log = Append(@, CallbackEntry("endCheck", preflight.check, FALSE,
                                                     descriptionOf(err)))]
  /\ last' = [Quiet("runPreflightChecks:catch", preflight.pid) EXCEPT !.ret = "false"]
  /\ UNCHANGED <<imageRegistry, count, providers, impl, providerStatuses, providerLifecycles,
                 providerLifecycleContexts, providerInstallations, providerUpdates,
                 providerAutostarts, connectionLifecycleContexts, listeners,
                 lifecycleListeners, containerConnectionLifecycleListeners, handles,
                 calls, autostart, tickLog>>

(* Specification of the pre-flight checks: installations and updates are
   registered and removed while a runPreflightChecks call makes its way. *)

NextPreflight ==
  \/ count = 0 /\ createProvider(PlainName, "started")
  \/ \E p \in PIDS, c \in CAPABILITIES : registerInstallation(p, c)
  \/ \E p \in PIDS, c \in CAPABILITIES : registerUpdate(p, c)
  \/ \E h \in BagToSet(handles) : disposeInstallation(h)
  \/ \E h \in BagToSet(handles) : disposeUpdate(h)
  \/ \E p \in PIDS, u \in BOOLEAN : runPreflightChecks(p, u)
  \/ \E r \in CHECKRESULTS : checkResolved(r)
  \/ \E e \in THROWN : checkThrew(e)

SpecPreflight == Init /\ [][NextPreflight]_vars

\* What the call in progress did about check k, in order
EntriesOf(k) == SelectSeq(preflight.log, LAMBDA e : e.check = k)

EndChecksOf(k) == SelectSeq(EntriesOf(k), LAMBDA e : e.what = "endCheck")

\* C4: when check k throws, runPreflightChecks returns false (it does not
\* reject); every check before k was ended as successful; check k is ended
\* once, as unsuccessful, and when an Error was thrown the description is its
\* message; no later check is started, executed or ended.
C4_ThrowingCheckReportedAndSequenceCut ==
  preflight.thrown # <<>> =>
    LET k == preflight.check
        err == preflight.thrown[1]
    IN /\ preflight.state = "false"
       /\ \A j \in 1 .. (k - 1) :
            /\ Len(EndChecksOf(j)) = 1
            /\ EndChecksOf(j)[1].successful
       /\ Len(EndChecksOf(k)) = 1
       /\ ~EndChecksOf(k)[1].successful
       /\ err.kind = "Error" => EndChecksOf(k)[1].description = err.text
       /\ \A j \in (k + 1) .. preflight.checks : EntriesOf(j) = <<>>

\* The second of three checks threw an Error.
C4_Witness ==
  /\ preflight.thrown = << [kind |-> "Error", text |-> "boom"] >>
  /\ preflight.check = 2
  /\ preflight.checks = 3
  /\ preflight.state = "false"

PreflightPhases == <<"startCheck", "execute", "endCheck">>

\* C5: the checks run one at a time in declared order: the call's log is
\* startCheck, execute, endCheck of check 1, then of check 2, and so on, with
\* only the last check possibly not ended yet; and a call that got a list of
\* checks returns true exactly when all of them were executed and every one
\* was ended as successful (an unsuccessful result ends the sequence).
C5_SequentialAndTrueOnlyIfAllSucceed ==
  /\ \A i \in 1 .. Len(preflight.log) :
       /\ preflight.log[i].check = ((i - 1) \div 3) + 1
       /\ preflight.log[i].what = PreflightPhases[((i - 1) % 3) + 1]
  /\ preflight.state = "running" =>
       /\ Len(preflight.log) % 3 = 2
       /\ preflight.log[Len(preflight.log)].check = preflight.check
  /\ preflight.state \in {"true", "false"} => Len(preflight.log) % 3 = 0
  /\ preflight.state \in {"true", "false"} /\ preflight.checks >= 0 =>
       ( preflight.state = "true" <=>
           /\ Len(preflight.log) = 3 * preflight.checks
           /\ \A i \in 1 .. Len(preflight.log) :
                preflight.log[i].what = "endCheck" => preflight.log[i].successful )

\* C21: a runPreflightChecks call works on the update of the provider when
\* runUpdateChecks is true and on its installation otherwise, as registered
\* when the call is made: it throws when there is none, returns false with
\* nothing started or ended when that one has no preflightChecks, and
\* otherwise runs the checks of that one, so that at no point of the call a
\* check beyond its list is started, executed or ended.
PreflightSelection ==
  /\ last'.op = "runPreflightChecks" =>
       /\ last'.args =>
            /\ providerUpdates[last'.pid] = NoCapability =>
                 last'.result # "ok" /\ preflight'.log = <<>>
            /\ providerUpdates[last'.pid] = NoPreflightChecks =>
                 last'.ret = "false" /\ preflight'.log = <<>>
            /\ providerUpdates[last'.pid] >= 0 =>
                 preflight'.checks = providerUpdates[last'.pid]
       /\ ~last'.args =>
            /\ providerInstallations[last'.pid] = NoCapability =>
                 last'.result # "ok" /\ preflight'.log = <<>>
            /\ providerInstallations[last'.pid] = NoPreflightChecks =>
                 last'.ret = "false" /\ preflight'.log = <<>>
            /\ providerInstallations[last'.pid] >= 0 =>
                 preflight'.checks = providerInstallations[last'.pid]
  /\ last'.op # "runPreflightChecks" => preflight'.checks = preflight.checks
  /\ \A i \in 1 .. Len(preflight'.log) :
       preflight'.log[i].check \in 1 .. preflight'.checks

C21_PreflightSelectsByRunUpdateChecks == [][PreflightSelection]_vars

\* A call for the update checks is at the third check of the update while the
\* installation has one check.
C21_Witness ==
  /\ preflight.state = "running"
  /\ preflight.check = 3
  /\ providerUpdates[preflight.pid] = 3
  /\ providerInstallations[preflight.pid] = 1

\* A call for the installation checks returned false at once, the
\* installation having no preflightChecks and the update two checks.
C21_WitnessNoPreflightChecks ==
  /\ last.op = "runPreflightChecks"
  /\ ~last.args
  /\ last.ret = "false"
  /\ preflight.log = <<>>
  /\ providerInstallations[last.pid] = NoPreflightChecks
  /\ providerUpdates[last.pid] = 2

\* C31: a runPreflightChecks call for a provider without a capability of the
\* selected kind (no update when runUpdateChecks, no installation otherwise)
\* is rejected with the "No matching installation" error: it does not return
\* false or true, and no startCheck or endCheck is made.
C31_NoCapabilityRejects ==
  ( /\ last.op = "runPreflightChecks"
    /\ last.pid \in PIDS
    /\ IF last.args THEN providerUpdates[last.pid] = NoCapability
                    ELSE providerInstallations[last.pid] = NoCapability )
  => /\ last.result = "No matching installation for provider"
     /\ last.ret = "undefined"
     /\ preflight.state = "rejected"
     /\ preflight.log = <<>>

\* The update checks were asked of a provider that has an installation with
\* checks and no update; the installation checks of one that has only an update.
C31_Witness ==
  /\ last.op = "runPreflightChecks"
  /\ last.args
  /\ providerUpdates[last.pid] = NoCapability
  /\ providerInstallations[last.pid] = 2
  /\ preflight.state = "rejected"

C31_WitnessInstallation ==
  /\ last.op = "runPreflightChecks"
  /\ ~last.args
  /\ providerInstallations[last.pid] = NoCapability
  /\ providerUpdates[last.pid] = 2
  /\ last.result = "No matching installation for provider"

\* A call returned true after three checks; another stopped at an
\* unsuccessful second check.
C5_Witness ==
  /\ preflight.state = "true"
  /\ preflight.checks = 3
  /\ Len(preflight.log) = 9

C5_WitnessUnsuccessful ==
  /\ preflight.state = "false"
  /\ preflight.thrown = <<>>
  /\ preflight.checks = 3
  /\ Len(preflight.log) = 6

-----------------------------------------------------------------------------
(* Autostart registration and runAutostart.  autostart is the runAutostart
   call that is followed: the entries of providerAutostarts it read (at), how
   often it invoked start for each entry (invoked), the state of the promise
   each start returned (starts) and the state of the promise the call
   returned (state). *)

registerAutostart(id, a) ==
  /\ id < count
  /\ CanHandle(Handle("autostart", id, NONE))
  /\ providerAutostarts' = mapSet(providerAutostarts, id, a)
  /\ handles' = NewHandle(Handle("autostart", id, NONE))
  /\ last' = [Quiet("registerAutostart", id) EXCEPT !.args = a]
  /\ UNCHANGED <<imageRegistry, count, providers, impl, providerStatuses, providerLifecycles,
                 providerLifecycleContexts, providerInstallations, providerUpdates,
                 connectionLifecycleContexts, listeners, lifecycleListeners,
                 containerConnectionLifecycleListeners, calls, preflight, autostart,
                 tickLog>>

disposeAutostart(h) ==
  /\ BagIn(h, handles)
  /\ h.kind = "autostart"
  /\ providerAutostarts' = [providerAutostarts EXCEPT ![h.pid] = NONE]
  /\ handles' = Disposed(h)
  /\ last' = Quiet("disposeAutostart", h.pid)
  /\ UNCHANGED <<imageRegistry, count, providers, impl, providerStatuses, providerLifecycles,
                 providerLifecycleContexts, providerInstallations, providerUpdates,
                 connectionLifecycleContexts, listeners, lifecycleListeners,
                 containerConnectionLifecycleListeners, calls, preflight, autostart,
                 tickLog>>

\* Array.from(this.providerAutostarts.values()): the entries the call starts
autostartValues == {p \in PIDS : providerAutostarts[p] # NONE}

\* Promise.all(promises): rejected as soon as one of the promises is
\* rejected, fulfilled once all of them are fulfilled, pending otherwise.
promiseAllWaitsThenFulfils(promises) ==
  IF \E p \in DOMAIN promises : promises[p] = "pending" THEN "pending"
  ELSE "resolved"

promiseAllOfTheFirst(promises) ==
  IF \E p \in DOMAIN promises : promises[p] = "rejected" THEN "rejected"
  ELSE IF \E p \in DOMAIN promises : promises[p] = "resolved" THEN "resolved"
  ELSE IF \A p \in DOMAIN promises : promises[p] = "none" THEN "resolved"
  ELSE "pending"

promiseAll(promises) ==
  IF \E p \in DOMAIN promises : promises[p] = "rejected" THEN "rejected"
  ELSE IF \A p \in DOMAIN promises : promises[p] \in {"none", "resolved"}
    THEN "resolved"
  ELSE "pending"

\* autostartValues.map(autoStart => autoStart.start(new LoggerImpl())): start
\* is invoked on each entry, one after the other, before the call returns its
\* promise.  start returns a promise, as its signature says.
runAutostart ==
  /\ autostart.state # "running"
  /\ autostart' = [state |-> "running",
                   at |-> providerAutostarts,
                   starts |-> [p \in PIDS |->
                                 IF p \in autostartValues THEN "pending" ELSE "none"],
                   invoked |-> [p \in PIDS |->
                                 IF p \in autostartValues THEN 1 ELSE 0]]
  /\ last' = [Quiet("runAutostart", NOPID) EXCEPT !.ret = "pending"]
  /\ UNCHANGED <<imageRegistry, count, providers, impl, providerStatuses, providerLifecycles,
                 providerLifecycleContexts, providerInstallations, providerUpdates,
                 providerAutostarts, connectionLifecycleContexts, listeners,
                 lifecycleListeners, containerConnectionLifecycleListeners, handles,
                 calls, preflight, tickLog>>

\* The promise returned by the start of entry p settles.
startSettled(p, outcome) ==
  /\ autostart.starts[p] = "pending"
  /\ autostart' = [autostart EXCEPT !.starts[p] = outcome]
  /\ last' = [Quiet("autostart.start", p) EXCEPT !.ret = outcome]
  /\ UNCHANGED <<imageRegistry, count, providers, impl, providerStatuses, providerLifecycles,
                 providerLifecycleContexts, providerInstallations, providerUpdates,
                 providerAutostarts, connectionLifecycleContexts, listeners,
                 lifecycleListeners, containerConnectionLifecycleListeners, handles,
                 calls, preflight, tickLog>>

\* The promise returned by runAutostart settles as Promise.all does.
runAutostartSettled ==
  /\ autostart.state = "running"
  /\ promiseAll(autostart.starts) # "pending"
  /\ autostart' = [autostart EXCEPT !.state = promiseAll(autostart.starts)]
  /\ last' = [Quiet("runAutostart", NOPID) EXCEPT
                !.ret = promiseAll(autostart.starts)]
  /\ UNCHANGED <<imageRegistry, count, providers, impl, providerStatuses, providerLifecycles,
                 providerLifecycleContexts, providerInstallations, providerUpdates,
                 providerAutostarts, connectionLifecycleContexts, listeners,
                 lifecycleListeners, containerConnectionLifecycleListeners, handles,
                 calls, preflight, tickLog>>

(* Specification of autostart: providers register and withdraw autostart
   entries, runAutostart is called, and the starts it launched settle in any
   order, each either way. *)

NextAutostart ==
  \/ createProvider(PlainName, "started")
  \/ \E p \in PIDS, a \in AUTOSTARTS :
       ~BagIn(Handle("autostart", p, NONE), handles) /\ registerAutostart(p, a)
  \/ \E h \in BagToSet(handles) : disposeAutostart(h)
  \/ runAutostart
  \/ \E p \in PIDS, outcome \in {"resolved", "rejected"} : startSettled(p, outcome)
  \/ runAutostartSettled

SpecAutostart == Init /\ [][NextAutostart]_vars

Launched == {p \in PIDS : autostart.at[p] # NONE}

\* C6: runAutostart invokes start exactly once on every entry registered when
\* it is called and on nothing else, whatever becomes of the other starts; the
\* call is rejected only if some start was rejected, is fulfilled only if
\* every start was fulfilled, and once the call and all its starts have
\* settled it is rejected exactly when some start was.
C6_StartsEachOnceAndRejectsIffOneRejects ==
  autostart.state # "idle" =>
    /\ \A p \in PIDS : autostart.invoked[p] = IF p \in Launched THEN 1 ELSE 0
    /\ \A p \in PIDS : (autostart.starts[p] # "none") <=> (p \in Launched)
    /\ autostart.state = "rejected" =>
         \E p \in Launched : autostart.starts[p] = "rejected"
    /\ autostart.state = "resolved" =>
         \A p \in Launched : autostart.starts[p] = "resolved"
    /\ ( /\ autostart.state \in {"resolved", "rejected"}
         /\ \A p \in Launched : autostart.starts[p] # "pending" ) =>
         ( autostart.state = "rejected" <=>
             \E p \in Launched : autostart.starts[p] = "rejected" )

\* Two entries were started, one start was fulfilled and the other rejected,
\* and the call is rejected.
C6_Witness ==
  /\ autostart.state = "rejected"
  /\ autostart.invoked = [p \in PIDS |-> 1]
  /\ \E p, q \in Launched :
       /\ autostart.starts[p] = "resolved"
       /\ autostart.starts[q] = "rejected"

-----------------------------------------------------------------------------
(* Listener lists *)

\* Array.prototype.indexOf: the first index holding x, 0 for -1
indexOf(list, x) ==
  IF \E i \in 1 .. Len(list) : list[i] = x
    THEN Min({i \in 1 .. Len(list) : list[i] = x})
    ELSE 0

\* list.splice(index, 1)
splice1(list, index) ==
  [i \in 1 .. (Len(list) - 1) |-> IF i < index THEN list[i] ELSE list[i + 1]]

addProviderListener(l) ==
  /\ Len(listeners) < MaxListeners
  /\ listeners' = Append(listeners, l)
  /\ last' = [Quiet("addProviderListener", NOPID) EXCEPT !.args = l, !.before = listeners]
  /\ UNCHANGED <<imageRegistry, count, providers, impl, providerStatuses, providerLifecycles,
                 providerLifecycleContexts, providerInstallations, providerUpdates,
                 providerAutostarts, connectionLifecycleContexts, lifecycleListeners,
                 containerConnectionLifecycleListeners, handles, calls, preflight,
                 autostart, tickLog>>

removeProviderListener(l) ==
  /\ listeners' = IF indexOf(listeners, l) # 0
                    THEN splice1(listeners, indexOf(listeners, l))
                    ELSE listeners
  /\ last' = [Quiet("removeProviderListener", NOPID) EXCEPT !.args = l, !.before = listeners]
  /\ UNCHANGED <<imageRegistry, count, providers, impl, providerStatuses, providerLifecycles,
                 providerLifecycleContexts, providerInstallations, providerUpdates,
                 providerAutostarts, connectionLifecycleContexts, lifecycleListeners,
                 containerConnectionLifecycleListeners, handles, calls, preflight,
                 autostart, tickLog>>

addProviderLifecycleListener(l) ==
  /\ Len(lifecycleListeners) < MaxListeners
  /\ lifecycleListeners' = Append(lifecycleListeners, l)
  /\ last' = [Quiet("addProviderLifecycleListener", NOPID) EXCEPT !.args = l, !.before = lifecycleListeners]
  /\ UNCHANGED <<imageRegistry, count, providers, impl, providerStatuses, providerLifecycles,
                 providerLifecycleContexts, providerInstallations, providerUpdates,
                 providerAutostarts, connectionLifecycleContexts, listeners,
                 containerConnectionLifecycleListeners, handles, calls, preflight,
                 autostart, tickLog>>

removeProviderLifecycleListener(l) ==
  /\ lifecycleListeners' = IF indexOf(lifecycleListeners, l) # 0
                             THEN splice1(lifecycleListeners, indexOf(lifecycleListeners, l))
                             ELSE lifecycleListeners
  /\ last' = [Quiet("removeProviderLifecycleListener", NOPID) EXCEPT !.args = l, !.before = lifecycleListeners]
  /\ UNCHANGED <<imageRegistry, count, providers, impl, providerStatuses, providerLifecycles,
                 providerLifecycleContexts, providerInstallations, providerUpdates,
                 providerAutostarts, connectionLifecycleContexts, listeners,
                 containerConnectionLifecycleListeners, handles, calls, preflight,
                 autostart, tickLog>>

addProviderContainerConnectionLifecycleListener(l) ==
  /\ Len(containerConnectionLifecycleListeners) < MaxListeners
  /\ containerConnectionLifecycleListeners' = Append(containerConnectionLifecycleListeners, l)
  /\ last' = [Quiet("addProviderContainerConnectionLifecycleListener", NOPID) EXCEPT
                !.args = l, !.before = containerConnectionLifecycleListeners]
  /\ UNCHANGED <<imageRegistry, count, providers, impl, providerStatuses, providerLifecycles,
                 providerLifecycleContexts, providerInstallations, providerUpdates,
                 providerAutostarts, connectionLifecycleContexts, listeners,
                 lifecycleListeners, handles, calls, preflight, autostart, tickLog>>

\* The index is looked up in containerConnectionLifecycleListeners and the
\* splice is made on lifecycleListeners; splice at an index past the end
\* removes nothing.
removeProviderContainerConnectionLifecycleListener(l) ==
  /\ lifecycleListeners' =
       IF /\ indexOf(containerConnectionLifecycleListeners, l) # 0
          /\ indexOf(containerConnectionLifecycleListeners, l) <= Len(lifecycleListeners)
         THEN splice1(lifecycleListeners, indexOf(containerConnectionLifecycleListeners, l))
         ELSE lifecycleListeners
  /\ last' = [Quiet("removeProviderContainerConnectionLifecycleListener", NOPID) EXCEPT
                !.args = l, !.before = containerConnectionLifecycleListeners]
  /\ UNCHANGED <<imageRegistry, count, providers, impl, providerStatuses, providerLifecycles,
                 providerLifecycleContexts, providerInstallations, providerUpdates,
                 providerAutostarts, connectionLifecycleContexts, listeners,
                 containerConnectionLifecycleListeners, handles, calls, preflight,
                 autostart, tickLog>>

-----------------------------------------------------------------------------
(* Container connections and the connection factory of a provider
   (provider-impl.ts is not among the sources).  Registering a connection puts
   it in the provider's containerConnections and tells the registry
   (onDidRegisterContainerConnection); disposing the registration takes it out
   and tells the registry (onDidUnregisterContainerConnection). *)

\* new LifecycleContextImpl() kept for the connection
connectionContext(connection) == CTX \o " of " \o connection

\* onDidRegisterContainerConnection: connectionLifecycleContexts.set comes
\* before containerConnectionLifecycleListeners.forEach; the connections a
\* context is held for while the listeners run
contextsBeforeSet(before, after) == before

contextsWhenNotified(before, after) == after

registerContainerProviderConnection(id, connection) ==
  /\ id < count
  /\ Len(impl[id].containerConnections) < MaxConnections
  /\ \A i \in 1 .. Len(impl[id].containerConnections) :
       impl[id].containerConnections[i] # connection
  /\ LET impl2 == [impl EXCEPT ![id].containerConnections = Append(@, connection)]
     IN /\ impl' = impl2
        /\ connectionLifecycleContexts' = connectionLifecycleContexts \cup {connection}
        /\ last' = [Quiet("registerContainerProviderConnection", id) EXCEPT
                      !.args = [connection |-> connection,
                                contexts |-> contextsWhenNotified(
                                               connectionLifecycleContexts,
                                               connectionLifecycleContexts \cup {connection})],
                      !.delivered = Notify(containerConnectionLifecycleListeners,
                                      "provider-container-connection:register",
                                      getProviderInfo(id, impl2, providerLifecycles,
                                                      providerInstallations, providerUpdates))]
  /\ handles' = NewHandle(Handle("connection", id, connection))
  /\ UNCHANGED <<imageRegistry, count, providers, providerStatuses, providerLifecycles,
                 providerLifecycleContexts, providerInstallations, providerUpdates,
                 providerAutostarts, listeners, lifecycleListeners,
                 containerConnectionLifecycleListeners, calls, preflight, autostart,
                 tickLog>>

\* Called by the provider when the status of one of its connections changed.
onDidChangeContainerProviderConnectionStatus(id, connection) ==
  /\ id < count
  /\ \E i \in 1 .. Len(impl[id].containerConnections) :
       impl[id].containerConnections[i] = connection
  /\ last' = [Quiet("onDidChangeContainerProviderConnectionStatus", id) EXCEPT
                !.args = [connection |-> connection,
                          contexts |-> connectionLifecycleContexts],
                !.delivered = Notify(containerConnectionLifecycleListeners,
                                "provider-container-connection:update-status",
                                Info(id))]
  /\ UNCHANGED <<imageRegistry, count, providers, impl, providerStatuses, providerLifecycles,
                 providerLifecycleContexts, providerInstallations, providerUpdates,
                 providerAutostarts, connectionLifecycleContexts, listeners,
                 lifecycleListeners, containerConnectionLifecycleListeners, handles,
                 calls, preflight, autostart, tickLog>>

disposeContainerProviderConnection(h) ==
  /\ BagIn(h, handles)
  /\ h.kind = "connection"
  /\ LET impl2 == [impl EXCEPT ![h.pid].containerConnections =
                                  SelectSeq(@, LAMBDA c : c # h.cap)]
     IN /\ impl' = impl2
        /\ last' = [Quiet("disposeContainerProviderConnection", h.pid) EXCEPT
                      !.delivered = Notify(containerConnectionLifecycleListeners,
                                      "provider-container-connection:unregister",
                                      getProviderInfo(h.pid, impl2, providerLifecycles,
                                                      providerInstallations, providerUpdates))]
  /\ handles' = Disposed(h)
  /\ UNCHANGED <<imageRegistry, count, providers, providerStatuses, providerLifecycles,
                 providerLifecycleContexts, providerInstallations, providerUpdates,
                 providerAutostarts, connectionLifecycleContexts, listeners,
                 lifecycleListeners, containerConnectionLifecycleListeners, calls,
                 preflight, autostart, tickLog>>

setContainerProviderConnectionFactory(id) ==
  /\ id < count
  /\ ~impl[id].containerProviderConnectionFactory
  /\ impl' = [impl EXCEPT ![id].containerProviderConnectionFactory = TRUE]
  /\ last' = Quiet("setContainerProviderConnectionFactory", id)
  /\ UNCHANGED <<imageRegistry, count, providers, providerStatuses, providerLifecycles,
                 providerLifecycleContexts, providerInstallations, providerUpdates,
                 providerAutostarts, connectionLifecycleContexts, listeners,
                 lifecycleListeners, containerConnectionLifecycleListeners, handles,
                 calls, preflight, autostart, tickLog>>

-----------------------------------------------------------------------------
(* Lifecycle calls.  A call that reaches its await is kept in calls until what
   it awaits settles. *)

Invocation(target, method, context) ==
  [target |-> target, method |-> method, context |-> context]

\* this.providerLifecycles.get(providerId), undefined leading to the throw of
\* getMatchingProviderLifecycle
getMatchingProviderLifecycleOrFirst(id) ==
  IF providerLifecycles[id] # NONE THEN providerLifecycles[id] ELSE "L1"

getMatchingProviderLifecycle(id) == providerLifecycles[id]

\* The three lookups every lifecycle method begins with: the error thrown, or ok
matchingLifecycleOnly(id) ==
  IF getMatchingProviderLifecycle(id) = NONE
    THEN "no provider lifecycle matching provider id"
  ELSE IF providerLifecycleContexts[id] = NONE
    THEN "no lifecycle context matching provider id"
  ELSE "ok"

matchingExclusive(id) ==
  IF id \notin providers THEN "no provider matching provider id"
  ELSE IF getMatchingProviderLifecycle(id) = NONE
    THEN "no provider lifecycle matching provider id"
  ELSE IF providerLifecycleContexts[id] = NONE
    THEN "no lifecycle context matching provider id"
  ELSE IF \E c \in BagToSet(calls) : c.pid = id
    THEN "a lifecycle call is in progress"
  ELSE "ok"

matching(id) ==
  IF id \notin providers THEN "no provider matching provider id"
  ELSE IF getMatchingProviderLifecycle(id) = NONE
    THEN "no provider lifecycle matching provider id"
  ELSE IF providerLifecycleContexts[id] = NONE
    THEN "no lifecycle context matching provider id"
  ELSE "ok"

CanSuspend == BagCardinality(calls) < MaxCalls

\* A handler that threw: nothing delivered, nothing invoked, nothing suspended.
Threw(op, id, message) ==
  /\ calls' = calls
  /\ last' = [Quiet(op, id) EXCEPT !.result = message, !.ret = "rejected"]

\* The order of the listener calls and of the method call before the await:
\* lifecycleListeners.forEach(...) comes first, await lifecycle.method(context)
\* second.
methodThenNotify(events, method) == <<method>> \o events

notifyThenMethod(events, method) == events \o <<method>>

NamesOf(events) == [i \in 1 .. Len(events) |-> events[i].name]

\* The body start, stop and initialize of a provider lifecycle share: the
\* lookups, the before event, the invocation with the provider's context, up
\* to the await.
lifecycleMethod(op, id, method, after) ==
  IF matching(id) # "ok"
    THEN /\ calls' = calls
         /\ last' = [Quiet(op, id) EXCEPT !.result = matching(id),
                                          !.ret = "rejected", !.after = after]
    ELSE /\ CanSuspend
         /\ calls' = calls (+) SetToBag({Call(op, id, getMatchingProviderLifecycle(id), method)})
         /\ last' = [Quiet(op, id) EXCEPT
                       !.delivered = Notify(lifecycleListeners,
                                       "provider:before-" \o method \o "-lifecycle",
                                       Info(id)),
                       !.invoked = << Invocation(getMatchingProviderLifecycle(id), method,
                                                 providerLifecycleContexts[id]) >>,
                       !.steps = notifyThenMethod(
                                   NamesOf(Notify(lifecycleListeners,
                                             "provider:before-" \o method \o "-lifecycle",
                                             Info(id))),
                                   method),
                       !.ret = "pending", !.after = after]

NotObserved == [op |-> NONE, pid |-> NOPID]

startProviderLifecycle(id) ==
  /\ lifecycleMethod("startProviderLifecycle", id, "start",
                     [op |-> last.op, pid |-> last.pid])
  /\ UNCHANGED <<imageRegistry, count, providers, impl, providerStatuses, providerLifecycles,
                 providerLifecycleContexts, providerInstallations, providerUpdates,
                 providerAutostarts, connectionLifecycleContexts, listeners,
                 lifecycleListeners, containerConnectionLifecycleListeners, handles,
                 preflight, autostart, tickLog>>

stopProviderLifecycle(id) ==
  /\ lifecycleMethod("stopProviderLifecycle", id, "stop", NotObserved)
  /\ UNCHANGED <<imageRegistry, count, providers, impl, providerStatuses, providerLifecycles,
                 providerLifecycleContexts, providerInstallations, providerUpdates,
                 providerAutostarts, connectionLifecycleContexts, listeners,
                 lifecycleListeners, containerConnectionLifecycleListeners, handles,
                 preflight, autostart, tickLog>>

\* if (!providerLifecycle.initialize) return, after the lookups
intializeProviderLifecycleOf(op, id) ==
  IF matching(id) = "ok" /\ ~hasInitialize(getMatchingProviderLifecycle(id))
    THEN /\ calls' = calls
         /\ last' = [Quiet(op, id) EXCEPT !.ret = "resolved"]
    ELSE lifecycleMethod(op, id, "initialize", NotObserved)

intializeProviderLifecycle(id) ==
  /\ intializeProviderLifecycleOf("intializeProviderLifecycle", id)
  /\ UNCHANGED <<imageRegistry, count, providers, impl, providerStatuses, providerLifecycles,
                 providerLifecycleContexts, providerInstallations, providerUpdates,
                 providerAutostarts, connectionLifecycleContexts, listeners,
                 lifecycleListeners, containerConnectionLifecycleListeners, handles,
                 preflight, autostart, tickLog>>

\* do we have a lifecycle attached to the provider, with initialize ?
prefersFactory(id) == FALSE

prefersLifecycle(id) ==
  providerLifecycles[id] # NONE /\ hasInitialize(providerLifecycles[id])

initializeProvider(id) ==
  /\ IF id \notin providers
       THEN Threw("initializeProvider", id, "no provider matching provider id")
     ELSE IF prefersLifecycle(id)
       THEN intializeProviderLifecycleOf("initializeProvider", id)
     ELSE IF impl[id].containerProviderConnectionFactory
       THEN /\ CanSuspend
            /\ calls' = calls (+) SetToBag({Call("initializeProvider", id,
                                                 "containerProviderConnectionFactory",
                                                 "initialize")})
            /\ last' = [Quiet("initializeProvider", id) EXCEPT
                          !.tracked = << <<"initializeProvider", impl[id].name>> >>,
                          !.invoked = << Invocation("containerProviderConnectionFactory",
                                                    "initialize", NONE) >>,
                          !.ret = "pending"]
     ELSE Threw("initializeProvider", id,
                "No initialize implementation found for this provider")
  /\ UNCHANGED <<imageRegistry, count, providers, impl, providerStatuses, providerLifecycles,
                 providerLifecycleContexts, providerInstallations, providerUpdates,
                 providerAutostarts, connectionLifecycleContexts, listeners,
                 lifecycleListeners, containerConnectionLifecycleListeners, handles,
                 preflight, autostart, tickLog>>

\* provider.containerConnections[0]
lastConnection(containerConnections) == containerConnections[Len(containerConnections)]

firstConnection(containerConnections) == containerConnections[1]

startProvider(id) ==
  /\ IF id \notin providers
       THEN Threw("startProvider", id, "no provider matching provider id")
     ELSE IF providerLifecycles[id] # NONE
       THEN lifecycleMethod("startProvider", id, "start", NotObserved)
     ELSE IF Len(impl[id].containerConnections) > 0
       THEN LET connection == firstConnection(impl[id].containerConnections)
            IN IF ~hasLifecycle(connection) \/ ~hasStart(connection)
                 THEN Threw("startProvider", id,
                            "The container connection does not support start lifecycle")
               ELSE IF connection \notin connectionLifecycleContexts
                 THEN Threw("startProvider", id,
                            "The connection does not have context to start")
               ELSE /\ CanSuspend
                    /\ calls' = calls (+) SetToBag({Call("startProvider", id,
                                                         connection, "start")})
                    /\ last' = [Quiet("startProvider", id) EXCEPT
                                  !.invoked = << Invocation(connection, "start",
                                                            connectionContext(connection)) >>,
                                  !.ret = "pending"]
     ELSE Threw("startProvider", id, "No container connection found for provider")
  /\ UNCHANGED <<imageRegistry, count, providers, impl, providerStatuses, providerLifecycles,
                 providerLifecycleContexts, providerInstallations, providerUpdates,
                 providerAutostarts, connectionLifecycleContexts, listeners,
                 lifecycleListeners, containerConnectionLifecycleListeners, handles,
                 preflight, autostart, tickLog>>

\* What a suspended call awaits resolved: a provider lifecycle method goes on
\* to its after event; the promise of a connection's start or of the
\* factory's initialize was returned as it is.
\* A suspended call resumes once: it is no longer awaiting afterwards.
resumeKept(c) == calls

resume(c) == calls (-) SetToBag({c})

callResolved(c) ==
  /\ BagIn(c, calls)
  /\ calls' = resume(c)
  /\ last' = [Quiet("resolved", c.pid) EXCEPT
                !.call = c, !.ret = "resolved",
                !.delivered = IF c.target \in LIFECYCLES
                                THEN Notify(lifecycleListeners,
                                       "provider:after-" \o c.method \o "-lifecycle",
                                       Info(c.pid))
                                ELSE <<>>]
  /\ UNCHANGED <<imageRegistry, count, providers, impl, providerStatuses, providerLifecycles,
                 providerLifecycleContexts, providerInstallations, providerUpdates,
                 providerAutostarts, connectionLifecycleContexts, listeners,
                 lifecycleListeners, containerConnectionLifecycleListeners, handles,
                 preflight, autostart, tickLog>>

\* What a suspended call awaits rejected: the call rejects, no after event.
callRejected(c) ==
  /\ BagIn(c, calls)
  /\ calls' = resume(c)
  /\ last' = [Quiet("rejected", c.pid) EXCEPT !.call = c, !.ret = "rejected"]
  /\ UNCHANGED <<imageRegistry, count, providers, impl, providerStatuses, providerLifecycles,
                 providerLifecycleContexts, providerInstallations, providerUpdates,
                 providerAutostarts, connectionLifecycleContexts, listeners,
                 lifecycleListeners, containerConnectionLifecycleListeners, handles,
                 preflight, autostart, tickLog>>

-----------------------------------------------------------------------------
(* createProviderConnection *)

\* provider.containerProviderConnectionFactory.create(params): what create is
\* called with
delegatedDefault(params) == "params1"

delegated(params) == params

createProviderConnection(id, params) ==
  /\ IF id \notin providers
       THEN Threw("createProviderConnection", id, "no provider matching provider id")
     ELSE IF ~impl[id].containerProviderConnectionFactory
       THEN /\ calls' = calls
            /\ last' = [Quiet("createProviderConnection", id) EXCEPT
                          !.result = "The provider does not support container connection creation",
                          !.ret = "rejected", !.args = params]
     ELSE /\ CanSuspend
          /\ calls' = calls (+) SetToBag({Call("createProviderConnection", id,
                                               "containerProviderConnectionFactory",
                                               "create")})
          /\ last' = [Quiet("createProviderConnection", id) EXCEPT
                        !.invoked = << Invocation("containerProviderConnectionFactory",
                                                  "create", delegated(params)) >>,
                        !.ret = "pending", !.args = params]
  /\ UNCHANGED <<imageRegistry, count, providers, impl, providerStatuses, providerLifecycles,
                 providerLifecycleContexts, providerInstallations, providerUpdates,
                 providerAutostarts, connectionLifecycleContexts, listeners,
                 lifecycleListeners, containerConnectionLifecycleListeners, handles,
                 preflight, autostart, tickLog>>

(* Specification of createProviderConnection: a provider with or without a
   factory, listeners of both kinds present or not, and the call made with
   either parameters at any point. *)

NextCreateConnection ==
  \/ count = 0 /\ createProvider(PlainName, "started")
  \/ \E p \in PIDS : disposeProvider(p)
  \/ \E p \in PIDS : setContainerProviderConnectionFactory(p)
  \/ addProviderListener("l1")
  \/ addProviderLifecycleListener("l1")
  \/ \E p \in PIDS, params \in PARAMS : createProviderConnection(p, params)
  \/ \E c \in BagToSet(calls) : callResolved(c)
  \/ \E c \in BagToSet(calls) : callRejected(c)

SpecCreateConnection == Init /\ [][NextCreateConnection]_vars

\* C11: a createProviderConnection step on a tracked provider leaves the
\* registry's maps and lists as they are; without a factory it throws,
\* invokes nothing and awaits nothing; with a factory it invokes create once,
\* with the params it was given, delivers no event, and awaits that one call.
\* When what such a call awaits settles, the call settles the same way.
C11_CreateConnectionDelegates ==
  [][ /\ ( last'.op = "createProviderConnection" /\ last'.pid \in providers ) =>
           /\ UNCHANGED registry
           /\ last'.delivered = <<>>
           /\ IF impl[last'.pid].containerProviderConnectionFactory
                THEN /\ last'.result = "ok"
                     /\ last'.invoked = << Invocation("containerProviderConnectionFactory",
                                                      "create", last'.args) >>
                     /\ calls' = calls (+) SetToBag({Call("createProviderConnection",
                                                          last'.pid,
                                                          "containerProviderConnectionFactory",
                                                          "create")})
                ELSE /\ last'.result =
                          "The provider does not support container connection creation"
                     /\ last'.ret = "rejected"
                     /\ last'.invoked = <<>>
                     /\ calls' = calls
      /\ ( last'.op \in {"resolved", "rejected"}
           /\ last'.call.via = "createProviderConnection" ) =>
           /\ UNCHANGED registry
           /\ last'.ret = last'.op
           /\ last'.invoked = <<>>
           /\ last'.delivered = <<>> ]_vars

\* create has just been invoked with the second parameters, listeners present.
C11_Witness ==
  /\ last.op = "createProviderConnection"
  /\ last.args = "params2"
  /\ last.invoked = << Invocation("containerProviderConnectionFactory", "create", "params2") >>
  /\ listeners # <<>>
  /\ lifecycleListeners # <<>>

\* The call has just failed for want of a factory.
C11_WitnessNoFactory ==
  /\ last.op = "createProviderConnection"
  /\ last.pid \in providers
  /\ last.ret = "rejected"

-----------------------------------------------------------------------------
(* startProviderConnection, stopProviderConnection, deleteProviderConnection *)

\* provider.containerConnections.find(connection =>
\*   connection.endpoint.socketPath === info.endpoint.socketPath), NONE for
\* undefined
findLast(containerConnections, info) ==
  LET matches == {i \in 1 .. Len(containerConnections) :
                    socketPath(containerConnections[i]) = info.socketPath}
  IN IF matches = {} THEN NONE
     ELSE containerConnections[CHOOSE i \in matches : \A j \in matches : j <= i]

find(containerConnections, info) ==
  LET matches == {i \in 1 .. Len(containerConnections) :
                    socketPath(containerConnections[i]) = info.socketPath}
  IN IF matches = {} THEN NONE ELSE containerConnections[Min(matches)]

\* lifecycle && lifecycle[method]
hasMethod(connection, method) ==
  /\ hasLifecycle(connection)
  /\ CASE method = "start" -> hasStart(connection)
       [] method = "stop" -> hasStop(connection)
       [] method = "delete" -> hasDelete(connection)

\* The lookups of the three methods, as getMatchingContainerConnectionFromProvider
\* and the methods make them: the error thrown, or ok
matchingConnection(id, info, method) ==
  IF id \notin providers THEN "no provider matching provider id"
  ELSE IF find(impl[id].containerConnections, info) = NONE
    THEN "no container connection matching provider id"
  ELSE IF ~hasMethod(find(impl[id].containerConnections, info), method)
    THEN "The container connection does not support " \o method \o " lifecycle"
  ELSE IF /\ method \in {"start", "stop"}
          /\ find(impl[id].containerConnections, info) \notin connectionLifecycleContexts
    THEN "The connection does not have context to start"
  ELSE "ok"

\* return lifecycle.start(context) / lifecycle.stop(context)
startStopProviderConnection(op, id, info, method) ==
  /\ IF matchingConnection(id, info, method) # "ok"
       THEN /\ calls' = calls
            /\ last' = [Quiet(op, id) EXCEPT
                          !.result = matchingConnection(id, info, method),
                          !.ret = "rejected", !.args = info]
       ELSE LET connection == find(impl[id].containerConnections, info)
            IN /\ CanSuspend
               /\ calls' = calls (+) SetToBag({Call(op, id, connection, method)})
               /\ last' = [Quiet(op, id) EXCEPT
                             !.invoked = << Invocation(connection, method,
                                                       connectionContext(connection)) >>,
                             !.steps = <<method>>,
                             !.ret = "pending", !.args = info]
  /\ UNCHANGED <<imageRegistry, count, providers, impl, providerStatuses, providerLifecycles,
                 providerLifecycleContexts, providerInstallations, providerUpdates,
                 providerAutostarts, connectionLifecycleContexts, listeners,
                 lifecycleListeners, containerConnectionLifecycleListeners, handles,
                 preflight, autostart, tickLog>>

startProviderConnection(id, info) ==
  startStopProviderConnection("startProviderConnection", id, info, "start")

stopProviderConnection(id, info) ==
  startStopProviderConnection("stopProviderConnection", id, info, "stop")

\* this.telemetryService.track('deleteProviderConnection', {name}) and
\* return lifecycle.delete(), in the order of the code
deleteProviderConnection(id, info) ==
  /\ IF matchingConnection(id, info, "delete") # "ok"
       THEN /\ calls' = calls
            /\ last' = [Quiet("deleteProviderConnection", id) EXCEPT
                          !.result = matchingConnection(id, info, "delete"),
                          !.ret = "rejected", !.args = info]
       ELSE LET connection == find(impl[id].containerConnections, info)
            IN /\ CanSuspend
               /\ calls' = calls (+) SetToBag({Call("deleteProviderConnection", id,
                                                    connection, "delete")})
               /\ last' = [Quiet("deleteProviderConnection", id) EXCEPT
                             !.tracked = << <<"deleteProviderConnection", info.name>> >>,
                             !.invoked = << Invocation(connection, "delete", NONE) >>,
                             !.steps = <<"track", "delete">>,
                             !.ret = "pending", !.args = info]
  /\ UNCHANGED <<imageRegistry, count, providers, impl, providerStatuses, providerLifecycles,
                 providerLifecycleContexts, providerInstallations, providerUpdates,
                 providerAutostarts, connectionLifecycleContexts, listeners,
                 lifecycleListeners, containerConnectionLifecycleListeners, handles,
                 preflight, autostart, tickLog>>

(* Specification of the connection methods: a provider gets and loses
   connections of the three kinds, in any order, and the three methods are
   called with either info at any point; what they await settles either way. *)

NextConnection ==
  \/ count = 0 /\ createProvider(PlainName, "started")
  \/ \E p \in PIDS : disposeProvider(p)
  \/ \E p \in PIDS, c \in CONNECTIONS : registerContainerProviderConnection(p, c)
  \/ \E h \in BagToSet(handles) : disposeContainerProviderConnection(h)
  \/ \E p \in PIDS, info \in INFOS : startProviderConnection(p, info)
  \/ \E p \in PIDS, info \in INFOS : stopProviderConnection(p, info)
  \/ \E p \in PIDS, info \in INFOS : deleteProviderConnection(p, info)
  \/ \E c \in BagToSet(calls) : callResolved(c)
  \/ \E c \in BagToSet(calls) : callRejected(c)

SpecConnection == Init /\ [][NextConnection]_vars

ConnectionMethods ==
  [startProviderConnection |-> "start", stopProviderConnection |-> "stop",
   deleteProviderConnection |-> "delete"]

\* C17: each of the three methods, called for a tracked provider, takes the
\* first of the provider's container connections whose socketPath is the
\* info's; it invokes the method of its name on that connection, once, and on
\* nothing else, and it does so only if the connection has the method and a
\* context is held for the connection; in every other case it throws and
\* invokes nothing.
C17_ConnectionMethodsDispatch ==
  ( last.op \in DOMAIN ConnectionMethods /\ last.pid \in providers ) =>
    LET method == ConnectionMethods[last.op]
        connections == impl[last.pid].containerConnections
        matches == {i \in 1 .. Len(connections) :
                      socketPath(connections[i]) = last.args.socketPath}
        target == connections[Min(matches)]
        present == CASE method = "start" -> target = "cStart"
                     [] method = "stop" -> target = "cStop"
                     [] method = "delete" -> target = "cStart"
    IN IF matches # {} /\ present /\ target \in connectionLifecycleContexts
         THEN /\ last.result = "ok"
              /\ Len(last.invoked) = 1
              /\ last.invoked[1].target = target
              /\ last.invoked[1].method = method
              /\ method # "delete" => last.invoked[1].context = connectionContext(target)
         ELSE /\ last.result # "ok"
              /\ last.ret = "rejected"
              /\ last.invoked = <<>>

\* start has just been invoked on the second connection of the provider, the
\* first one being at another socket.
C17_Witness ==
  /\ last.op = "startProviderConnection"
  /\ impl[last.pid].containerConnections = <<"cPlain", "cStart">>
  /\ last.invoked = << Invocation("cStart", "start", connectionContext("cStart")) >>

\* stop has just failed because the first connection at the socket cannot
\* stop, although the second one can.
C17_WitnessFirstMatch ==
  /\ last.op = "stopProviderConnection"
  /\ impl[last.pid].containerConnections = <<"cStart", "cStop">>
  /\ last.result = "The container connection does not support stop lifecycle"

\* C18, as stated: the deleteProviderConnection telemetry event is recorded
\* when the connection's delete has resolved, once, and at no other point
\* (not when the call is made, so not for a delete that goes on to reject).
C18_TelemetryWhenDeleteResolved ==
  /\ ( \E i \in 1 .. Len(last.tracked) : last.tracked[i][1] = "deleteProviderConnection" )
       => ( last.op = "resolved" /\ last.call.via = "deleteProviderConnection" )
  /\ ( last.op = "resolved" /\ last.call.via = "deleteProviderConnection" )
       => Len(last.tracked) = 1

\* What the code does: the event is recorded once, with the info's name, by
\* the call itself, after the lookups succeeded and before delete is invoked;
\* a call that throws records nothing, and nothing is recorded when delete
\* settles, either way.
C18_TelemetryBeforeDelete ==
  /\ last.op = "deleteProviderConnection" =>
       IF last.result = "ok"
         THEN /\ last.tracked = << <<"deleteProviderConnection", last.args.name>> >>
              /\ last.steps = <<"track", "delete">>
         ELSE /\ last.tracked = <<>>
              /\ last.invoked = <<>>
  /\ ( last.op \in {"resolved", "rejected"}
       /\ last.call.via = "deleteProviderConnection" ) => last.tracked = <<>>

\* A delete whose telemetry was recorded has just rejected.
C18_Witness ==
  /\ last.op = "rejected"
  /\ last.call.via = "deleteProviderConnection"
  /\ last.tracked = <<>>

(* Specification of the lifecycle round trip: lifecycles are registered for
   providers and their registrations disposed, lifecycle listeners join, and
   startProviderLifecycle is called at any point; what it awaits settles
   either way. *)

NextRoundTrip ==
  \/ count = 0 /\ createProvider(PlainName, "started")
  \/ \E p \in PIDS : disposeProvider(p)
  \/ \E p \in PIDS, lifecycle \in LIFECYCLES :
       ~BagIn(Handle("lifecycle", p, lifecycle), handles) /\ registerLifecycle(p, lifecycle)
  \/ \E h \in BagToSet(handles) : disposeLifecycle(h)
  \/ addProviderLifecycleListener("l1")
  \/ \E p \in PIDS : startProviderLifecycle(p)
  \/ \E p \in PIDS : stopProviderLifecycle(p)
  \/ \E c \in BagToSet(calls) : callResolved(c)
  \/ \E c \in BagToSet(calls) : callRejected(c)

SpecRoundTrip == Init /\ [][NextRoundTrip]_vars

\* C8: right after the handle returned by registerLifecycle for p is disposed,
\* no lifecycle and no lifecycle context is registered for p and the info of p
\* lists no lifecycle methods; and startProviderLifecycle(p) called next, p
\* being tracked, throws the 'no provider lifecycle matching' error, delivers no
\* event and invokes nothing.
C8_DisposeUndoesRegisterLifecycle ==
  /\ last.op = "disposeLifecycle" =>
       /\ providerLifecycles[last.pid] = NONE
       /\ providerLifecycleContexts[last.pid] = NONE
       /\ Info(last.pid).lifecycleMethods = <<>>
  /\ ( /\ last.op = "startProviderLifecycle"
       /\ last.after = [op |-> "disposeLifecycle", pid |-> last.pid]
       /\ last.pid \in providers ) =>
       /\ last.result = "no provider lifecycle matching provider id"
       /\ last.ret = "rejected"
       /\ last.delivered = <<>>
       /\ last.invoked = <<>>

\* C25: right after registerLifecycle the lifecycle and a context are stored
\* for the provider and each lifecycle listener has got one
\* provider:register-lifecycle event, in list order, whose info lists the
\* lifecycle methods start and stop; right after the handle is disposed
\* neither is stored and each lifecycle listener has got one
\* provider:removal-lifecycle event whose info lists no lifecycle methods.
C25_LifecycleEventsAfterTheMaps ==
  /\ last.op = "registerLifecycle" =>
       /\ providerLifecycles[last.pid] = last.args
       /\ providerLifecycleContexts[last.pid] # NONE
       /\ Len(last.delivered) = Len(lifecycleListeners)
       /\ \A i \in 1 .. Len(last.delivered) :
            /\ last.delivered[i].to = lifecycleListeners[i]
            /\ last.delivered[i].name = "provider:register-lifecycle"
            /\ last.delivered[i].info.internalId = last.pid
            /\ last.delivered[i].info.lifecycleMethods = <<"start", "stop">>
  /\ last.op = "disposeLifecycle" =>
       /\ providerLifecycles[last.pid] = NONE
       /\ providerLifecycleContexts[last.pid] = NONE
       /\ Len(last.delivered) = Len(lifecycleListeners)
       /\ \A i \in 1 .. Len(last.delivered) :
            /\ last.delivered[i].to = lifecycleListeners[i]
            /\ last.delivered[i].name = "provider:removal-lifecycle"
            /\ last.delivered[i].info.internalId = last.pid
            /\ last.delivered[i].info.lifecycleMethods = <<>>

\* A lifecycle listener has just been told of the removal of a lifecycle,
\* and of the registration of one.
C25_Witness ==
  /\ last.op = "disposeLifecycle"
  /\ Len(last.delivered) = 1
  /\ last.delivered[1].name = "provider:removal-lifecycle"

C25_WitnessRegister ==
  /\ last.op = "registerLifecycle"
  /\ Len(last.delivered) = 1
  /\ last.delivered[1].name = "provider:register-lifecycle"

\* C26: a stopProviderLifecycle call made for a tracked provider with a
\* lifecycle while a startProviderLifecycle call of the same provider awaits
\* lifecycle.start is carried out at once like any other: it delivers
\* before-stop-lifecycle to each lifecycle listener and invokes stop, the
\* start call still awaiting.
C26_StopWhileStartInFlight ==
  ( /\ last.op = "stopProviderLifecycle"
    /\ last.pid \in providers
    /\ providerLifecycles[last.pid] # NONE
    /\ \E c \in BagToSet(calls) :
         c.via = "startProviderLifecycle" /\ c.pid = last.pid ) =>
    /\ last.result = "ok"
    /\ last.ret = "pending"
    /\ Len(last.invoked) = 1
    /\ last.invoked[1].target = providerLifecycles[last.pid]
    /\ last.invoked[1].method = "stop"
    /\ Len(last.delivered) = Len(lifecycleListeners)
    /\ \A i \in 1 .. Len(last.delivered) :
         last.delivered[i].name = "provider:before-stop-lifecycle"
    /\ \E c \in BagToSet(calls) :
         c.via = "stopProviderLifecycle" /\ c.pid = last.pid /\ c.method = "stop"

\* before-stop-lifecycle has just been delivered while start is in flight;
\* and after-start-lifecycle has just been delivered while stop is in flight.
C26_Witness ==
  /\ last.op = "stopProviderLifecycle"
  /\ Len(last.delivered) = 1
  /\ last.delivered[1].name = "provider:before-stop-lifecycle"
  /\ \E c, d \in BagToSet(calls) :
       /\ c.via = "startProviderLifecycle" /\ c.method = "start"
       /\ d.via = "stopProviderLifecycle" /\ d.method = "stop"
       /\ c.pid = d.pid /\ c.target = d.target

C26_WitnessAfterStart ==
  /\ last.op = "resolved"
  /\ last.call.via = "startProviderLifecycle"
  /\ Len(last.delivered) = 1
  /\ last.delivered[1].name = "provider:after-start-lifecycle"
  /\ \E d \in BagToSet(calls) :
       d.via = "stopProviderLifecycle" /\ d.pid = last.pid

StartStop == {"startProviderLifecycle", "stopProviderLifecycle"}

MethodOf(op) == IF op = "startProviderLifecycle" THEN "start" ELSE "stop"

\* C14: startProviderLifecycle and stopProviderLifecycle, when they find the
\* lifecycle, deliver the before event to every lifecycle listener and then
\* invoke the method, once, with the provider's context.  The after event is
\* delivered, to every lifecycle listener, in the continuation that runs when
\* the method has resolved and nowhere else; when the method rejects the call
\* rejects, delivers nothing and invokes nothing again.
C14_BeforeMethodAfter ==
  /\ ( last.op \in StartStop /\ last.result = "ok" ) =>
       LET method == MethodOf(last.op)
           before == "provider:before-" \o method \o "-lifecycle"
       IN /\ last.delivered = Notify(lifecycleListeners, before, Info(last.pid))
          /\ last.invoked = << Invocation(providerLifecycles[last.pid], method,
                                          providerLifecycleContexts[last.pid]) >>
          /\ last.steps = [i \in 1 .. Len(lifecycleListeners) |-> before] \o <<method>>
          /\ last.ret = "pending"
  /\ ( last.op = "resolved" /\ last.call.via \in StartStop ) =>
       /\ last.delivered =
            Notify(lifecycleListeners,
                   "provider:after-" \o MethodOf(last.call.via) \o "-lifecycle",
                   Info(last.pid))
       /\ last.invoked = <<>>
       /\ last.ret = "resolved"
  /\ ( last.op = "rejected" /\ last.call.via \in StartStop ) =>
       /\ last.delivered = <<>>
       /\ last.invoked = <<>>
       /\ last.ret = "rejected"
  /\ \A i \in 1 .. Len(last.delivered) :
       last.delivered[i].name \in {"provider:after-start-lifecycle",
                                   "provider:after-stop-lifecycle"}
         => last.op = "resolved"

\* stop has just rejected, two lifecycle listeners present.
C14_Witness ==
  /\ last.op = "rejected"
  /\ last.call.via = "stopProviderLifecycle"
  /\ Len(lifecycleListeners) = 2

\* start has just resolved and the after event went to two listeners.
C14_WitnessResolved ==
  /\ last.op = "resolved"
  /\ last.call.via = "startProviderLifecycle"
  /\ Len(last.delivered) = 2

\* startProviderLifecycle(p) has just failed on a tracked provider whose
\* lifecycle registration was disposed right before, with a listener present.
C8_Witness ==
  /\ last.op = "startProviderLifecycle"
  /\ last.after = [op |-> "disposeLifecycle", pid |-> last.pid]
  /\ last.pid \in providers
  /\ last.result = "no provider lifecycle matching provider id"
  /\ lifecycleListeners # <<>>

(* Specification of startProvider: a provider gets and loses a lifecycle and
   container connections of the three kinds, in any order, and startProvider
   is called at any point. *)

NextStart ==
  \/ count = 0 /\ createProvider(PlainName, "started")
  \/ \E p \in PIDS : disposeProvider(p)
  \/ \E p \in PIDS :
       ~BagIn(Handle("lifecycle", p, "L1"), handles) /\ registerLifecycle(p, "L1")
  \/ \E h \in BagToSet(handles) : disposeLifecycle(h)
  \/ \E p \in PIDS, c \in CONNECTIONS : registerContainerProviderConnection(p, c)
  \/ \E h \in BagToSet(handles) : disposeContainerProviderConnection(h)
  \/ addProviderLifecycleListener("l1")
  \/ \E p \in PIDS : startProvider(p)
  \/ \E c \in BagToSet(calls) : callResolved(c)
  \/ \E c \in BagToSet(calls) : callRejected(c)

SpecStart == Init /\ [][NextStart]_vars

\* The connections registered and not unregistered: those in the
\* containerConnections of some provider
LiveConnections ==
  {c \in CONNECTIONS :
     \E p \in PIDS : \E i \in 1 .. Len(impl[p].containerConnections) :
       impl[p].containerConnections[i] = c}

\* C16, as stated: the connection-context map has a context for exactly the
\* connections that are registered and not yet unregistered.
C16_ContextsAreOfLiveConnections ==
  connectionLifecycleContexts = LiveConnections

\* What the code keeps: every live connection has a context, and a context,
\* once set, is never removed, unregistration included.
C16_ContextsOnlyGrow ==
  [][ /\ LiveConnections' \subseteq connectionLifecycleContexts'
      /\ connectionLifecycleContexts \subseteq connectionLifecycleContexts' ]_vars

\* A connection has just been unregistered and its context is still in the
\* map.
C16_Witness ==
  /\ last.op = "disposeContainerProviderConnection"
  /\ \E c \in connectionLifecycleContexts : c \notin LiveConnections

StartLifecycleEvents ==
  {"provider:before-start-lifecycle", "provider:after-start-lifecycle"}

\* C9: startProvider on a tracked provider with a lifecycle does what
\* startProviderLifecycle does (before event, start of the lifecycle with the
\* provider's context) and invokes nothing on a connection.  Without a
\* lifecycle it delivers no before-start or after-start event, neither when
\* called nor when the start it awaits resolves; it throws when the provider
\* has no container connection, when the first one has no start method, when
\* the first one has no context; otherwise it invokes start on the first
\* connection, with that connection's context, and on nothing else.
C9_StartProviderDispatch ==
  /\ ( last.op = "startProvider" /\ last.pid \in providers ) =>
       LET id == last.pid
           connections == impl[id].containerConnections
       IN IF providerLifecycles[id] # NONE
            THEN /\ last.result = "ok"
                 /\ last.invoked = << Invocation(providerLifecycles[id], "start",
                                                 providerLifecycleContexts[id]) >>
                 /\ last.delivered = Notify(lifecycleListeners,
                                            "provider:before-start-lifecycle", Info(id))
          ELSE /\ last.delivered = <<>>
               /\ IF connections = <<>>
                    THEN /\ last.result = "No container connection found for provider"
                         /\ last.invoked = <<>>
                  ELSE IF ~hasStart(connections[1])
                    THEN /\ last.result =
                              "The container connection does not support start lifecycle"
                         /\ last.invoked = <<>>
                  ELSE IF connections[1] \notin connectionLifecycleContexts
                    THEN /\ last.result = "The connection does not have context to start"
                         /\ last.invoked = <<>>
                  ELSE /\ last.result = "ok"
                       /\ last.invoked = << Invocation(connections[1], "start",
                                                       connectionContext(connections[1])) >>
  /\ ( last.op \in {"resolved", "rejected"} /\ last.call.via = "startProvider"
       /\ last.call.target \in CONNECTIONS ) =>
       \A i \in 1 .. Len(last.delivered) :
         last.delivered[i].name \notin StartLifecycleEvents

\* startProvider has just started the first of two connections of a provider
\* without a lifecycle, a lifecycle listener being present.
C9_Witness ==
  /\ last.op = "startProvider"
  /\ providerLifecycles[last.pid] = NONE
  /\ Len(impl[last.pid].containerConnections) = 2
  /\ last.invoked = << Invocation("cStart", "start", connectionContext("cStart")) >>
  /\ lifecycleListeners # <<>>

\* startProvider has just gone through the lifecycle of a provider that has a
\* startable connection as well.
C9_WitnessLifecycle ==
  /\ last.op = "startProvider"
  /\ providerLifecycles[last.pid] = "L1"
  /\ impl[last.pid].containerConnections # <<>>
  /\ impl[last.pid].containerConnections[1] = "cStart"
  /\ last.invoked = << Invocation("L1", "start", CTX) >>

(* Specification of initializeProvider: a provider gets and loses a lifecycle
   with or without initialize, gets a connection factory, and
   initializeProvider is called at any point. *)

NextInitialize ==
  \/ count = 0 /\ createProvider(PlainName, "started")
  \/ \E p \in PIDS : disposeProvider(p)
  \/ \E p \in PIDS, lifecycle \in LIFECYCLES :
       ~BagIn(Handle("lifecycle", p, lifecycle), handles) /\ registerLifecycle(p, lifecycle)
  \/ \E h \in BagToSet(handles) : disposeLifecycle(h)
  \/ \E p \in PIDS : setContainerProviderConnectionFactory(p)
  \/ addProviderLifecycleListener("l1")
  \/ \E p \in PIDS : initializeProvider(p)
  \/ \E p \in PIDS : intializeProviderLifecycle(p)
  \/ \E c \in BagToSet(calls) : callResolved(c)
  \/ \E c \in BagToSet(calls) : callRejected(c)

SpecInitialize == Init /\ [][NextInitialize]_vars

\* C10: initializeProvider on a tracked provider whose lifecycle has
\* initialize invokes that initialize, with the provider's context and between
\* the lifecycle events, and not the factory's; with no lifecycle, or one
\* without initialize, it invokes the factory's initialize if the provider has
\* a factory; with neither it throws 'No initialize implementation found for
\* this provider', invoking and delivering nothing.
C10_InitializeProviderDispatch ==
  ( last.op = "initializeProvider" /\ last.pid \in providers ) =>
    LET id == last.pid
        lifecycle == providerLifecycles[id]
    IN IF lifecycle = "L1"
         THEN /\ last.result = "ok"
              /\ last.invoked = << Invocation(lifecycle, "initialize",
                                              providerLifecycleContexts[id]) >>
              /\ last.delivered = Notify(lifecycleListeners,
                                         "provider:before-initialize-lifecycle", Info(id))
       ELSE IF impl[id].containerProviderConnectionFactory
         THEN /\ last.result = "ok"
              /\ last.invoked = << Invocation("containerProviderConnectionFactory",
                                              "initialize", NONE) >>
              /\ last.delivered = <<>>
       ELSE /\ last.result = "No initialize implementation found for this provider"
            /\ last.ret = "rejected"
            /\ last.invoked = <<>>
            /\ last.delivered = <<>>

\* C15: intializeProviderLifecycle, when it finds a lifecycle without
\* initialize (L2), resolves having delivered nothing and invoked nothing.
\* With initialize (L1) it delivers the before-initialize event to every
\* lifecycle listener, then invokes initialize once with the provider's
\* context; the after-initialize event is delivered in the continuation that
\* runs when initialize has resolved, and nowhere else.
C15_InitializeLifecycle ==
  /\ ( last.op = "intializeProviderLifecycle" /\ last.result = "ok" ) =>
       IF providerLifecycles[last.pid] = "L2"
         THEN /\ last.ret = "resolved"
              /\ last.delivered = <<>>
              /\ last.invoked = <<>>
              /\ last.steps = <<>>
         ELSE /\ last.ret = "pending"
              /\ last.delivered = Notify(lifecycleListeners,
                                         "provider:before-initialize-lifecycle",
                                         Info(last.pid))
              /\ last.invoked = << Invocation("L1", "initialize",
                                              providerLifecycleContexts[last.pid]) >>
              /\ last.steps = [i \in 1 .. Len(lifecycleListeners) |->
                                 "provider:before-initialize-lifecycle"]
                              \o <<"initialize">>
  /\ ( last.op = "resolved" /\ last.call.via = "intializeProviderLifecycle" ) =>
       /\ last.delivered = Notify(lifecycleListeners,
                                  "provider:after-initialize-lifecycle", Info(last.pid))
       /\ last.invoked = <<>>
  /\ \A i \in 1 .. Len(last.delivered) :
       last.delivered[i].name = "provider:after-initialize-lifecycle"
         => last.op = "resolved"

\* intializeProviderLifecycle has just returned without doing anything, for a
\* lifecycle without initialize, a lifecycle listener being present.
C15_Witness ==
  /\ last.op = "intializeProviderLifecycle"
  /\ last.result = "ok"
  /\ providerLifecycles[last.pid] = "L2"
  /\ lifecycleListeners # <<>>

\* initialize has resolved and the after event was delivered.
C15_WitnessAfter ==
  /\ last.op = "resolved"
  /\ last.call.via = "intializeProviderLifecycle"
  /\ last.delivered # <<>>

\* initializeProvider has just used the lifecycle of a provider that has a
\* factory too.
C10_Witness ==
  /\ last.op = "initializeProvider"
  /\ providerLifecycles[last.pid] = "L1"
  /\ impl[last.pid].containerProviderConnectionFactory
  /\ last.invoked = << Invocation("L1", "initialize", CTX) >>

\* initializeProvider has just fallen back to the factory of a provider whose
\* lifecycle has no initialize.
C10_WitnessFactory ==
  /\ last.op = "initializeProvider"
  /\ providerLifecycles[last.pid] = "L2"
  /\ last.invoked = << Invocation("containerProviderConnectionFactory", "initialize", NONE) >>

-----------------------------------------------------------------------------
(* The reconciliation tick: the setInterval callback of the constructor *)

\* status !== this.providerStatuses.get(providerKey)
statusDiffersAlways(status, cached) == TRUE

statusDiffersOnceSeeded(status, cached) == cached # NONE /\ status # cached

statusDiffers(status, cached) == status # cached

\* The deliveries, among ds, of events about provider p
About(ds, p) == SelectSeq(ds, LAMBDA d : d.info.internalId = p)

\* The listeners the deliveries ds went to, in delivery order
Receivers(ds) == [i \in 1 .. Len(ds) |-> ds[i].to]

\* The providers the tick polls: tracked, with a registered lifecycle.
PolledOfLifecycles == {p \in PIDS : providerLifecycles[p] # NONE}

Polled == {p \in providers : providerLifecycles[p] # NONE}

\* What the listeners of provider:update-status find when they run:
\* provider.updateStatus(status) comes before listeners.forEach(...), and
\* providerStatuses.set(providerKey, status) after it.
storedBeforeUpdate(before, after) == before

storedWhenNotified(before, after) == after

baselineWhenNotified(before, after) == before

\* status[p] is what providerLifecycle.status() of provider p returns in this tick.
tick(status) ==
  LET changed == {p \in Polled : statusDiffers(status[p], providerStatuses[p])}
      impl2 == [p \in PIDS |-> IF p \in changed THEN updateStatus(impl[p], status[p])
                                               ELSE impl[p]]
      order == Ascending(providers)
      statusCalls == [i \in 1 .. Len(Ascending(Polled)) |->
                        Invocation(providerLifecycles[Ascending(Polled)[i]], "status", NONE)]
      \* the ProviderImpl objects as they are while the listeners are told
      \* of order[i]: the providers before it in the loop are done, those
      \* after it are not reached yet
      implAt(i) == [p \in PIDS |->
                      IF p < order[i] THEN impl2[p]
                      ELSE IF p = order[i] THEN storedWhenNotified(impl[p], impl2[p])
                      ELSE impl[p]]
      delivered == Flatten([i \in 1 .. Len(order) |->
                     IF order[i] \in changed
                       THEN Notify(listeners, "provider:update-status",
                              getProviderInfo(order[i], implAt(i), providerLifecycles,
                                              providerInstallations, providerUpdates))
                       ELSE <<>>])
      found == Flatten([i \in 1 .. Len(order) |->
                 IF order[i] \in changed
                   THEN << [about |-> order[i],
                            stored |-> [p \in PIDS |-> implAt(i)[p].status],
                            baseline |-> baselineWhenNotified(providerStatuses[order[i]],
                                                              status[order[i]])] >>
                   ELSE <<>>])
  IN /\ impl' = impl2
     /\ providerStatuses' = [p \in PIDS |-> IF p \in changed THEN status[p]
                                                          ELSE providerStatuses[p]]
     /\ last' = [Quiet("tick", NOPID) EXCEPT
                   !.polled = status,
                   !.invoked = statusCalls,
                   !.args = found,
                   !.delivered = delivered]
     /\ tickLog' = IF /\ tickLog.on
                         /\ tickLog.pid \in Polled
                         /\ Len(tickLog.polls) < MaxTickLog
                      THEN [tickLog EXCEPT !.polls = Append(@,
                              [polled |-> status[tickLog.pid],
                               baseline |-> providerStatuses[tickLog.pid],
                               fired |-> tickLog.pid \in changed,
                               n |-> Len(About(delivered, tickLog.pid)),
                               toEach |-> Receivers(About(delivered, tickLog.pid))
                                            = listeners])]
                      ELSE tickLog
     /\ UNCHANGED <<imageRegistry, count, providers, providerLifecycles, providerLifecycleContexts,
                    providerInstallations, providerUpdates, providerAutostarts,
                    connectionLifecycleContexts, listeners, lifecycleListeners,
                    containerConnectionLifecycleListeners, handles, calls, preflight,
                    autostart>>

-----------------------------------------------------------------------------
(* installProvider, updateProvider *)

\* The lookups, the telemetry and the call of install / update, up to the
\* promise the method returns.  The id that ends the message of the second
\* throw is last.pid.
installOrUpdateProvider(op, id, capabilities, kind, method) ==
  /\ IF id \notin providers
       THEN Threw(op, id, "no provider matching provider id")
     ELSE IF capabilities[id] = NoCapability
       THEN Threw(op, id, "No matching " \o kind \o " for provider")
     ELSE /\ CanSuspend
          /\ calls' = calls (+) SetToBag({Call(op, id, NONE, method)})
          /\ last' = [Quiet(op, id) EXCEPT
                        !.tracked = << <<op, impl[id].name>> >>,
                        !.invoked = << Invocation(capabilities[id], method, NONE) >>,
                        !.steps = <<"track", method>>,
                        !.ret = "pending"]
  /\ UNCHANGED <<imageRegistry, count, providers, impl, providerStatuses, providerLifecycles,
                 providerLifecycleContexts, providerInstallations, providerUpdates,
                 providerAutostarts, connectionLifecycleContexts, listeners,
                 lifecycleListeners, containerConnectionLifecycleListeners, handles,
                 preflight, autostart, tickLog>>

installProvider(id) ==
  installOrUpdateProvider("installProvider", id, providerInstallations,
                          "installation", "install")

updateProvider(id) ==
  installOrUpdateProvider("updateProvider", id, providerUpdates, "update", "update")

(* Specification of repeated registration: a provider registers capabilities,
   of one kind twice or of two kinds, without disposing of any, and the
   operations that read a capability run in between, the asynchronous ones
   one at a time, the preflight checks and autostart once. *)

\* Installations and updates whose preflight checks need no check to run
IMMEDIATE == {NoPreflightChecks, 0}

NextLastWrite ==
  \/ count = 0 /\ createProvider(PlainName, "started")
  \/ /\ BagCardinality(handles) < MaxHandles
     /\ \/ \E p \in PIDS, l \in LIFECYCLES : registerLifecycle(p, l)
        \/ \E p \in PIDS, i \in IMMEDIATE : registerInstallation(p, i)
        \/ \E p \in PIDS, u \in IMMEDIATE : registerUpdate(p, u)
        \/ \E p \in PIDS, a \in AUTOSTARTS : registerAutostart(p, a)
  \/ /\ calls = EmptyBag
     /\ \/ \E p \in providers : startProviderLifecycle(p)
        \/ \E p \in providers : stopProviderLifecycle(p)
        \/ \E p \in providers : installProvider(p)
        \/ \E p \in providers : updateProvider(p)
  \/ /\ preflight.state = "idle"
     /\ \E p \in providers, runUpdateChecks \in BOOLEAN :
          runPreflightChecks(p, runUpdateChecks)
  \/ autostart.state = "idle" /\ runAutostart
  \/ \E status \in [Polled -> {"started"}] : tick(status)
  \/ \E c \in BagToSet(calls) : callResolved(c)

SpecLastWrite == Init /\ [][NextLastWrite]_vars

\* C19: a registration of a capability, whether or not the provider has one
\* of that kind, succeeds and makes the argument the one entry its map holds
\* for the provider, and nothing but a registration changes these maps; and
\* start, stop, install, update, the preflight checks, autostart and the
\* status poll each use the entry the map holds when they run, so the
\* capability registered last.
LastWrite ==
  LET op == last'.op
      id == last'.pid
  IN /\ op = "registerLifecycle" =>
          /\ last'.result = "ok"
          /\ providerLifecycles' = [providerLifecycles EXCEPT ![id] = last'.args]
     /\ op = "registerInstallation" =>
          /\ last'.result = "ok"
          /\ providerInstallations' = [providerInstallations EXCEPT ![id] = last'.args]
     /\ op = "registerUpdate" =>
          /\ last'.result = "ok"
          /\ providerUpdates' = [providerUpdates EXCEPT ![id] = last'.args]
     /\ op = "registerAutostart" =>
          /\ last'.result = "ok"
          /\ providerAutostarts' = [providerAutostarts EXCEPT ![id] = last'.args]
     /\ op # "registerLifecycle" => UNCHANGED providerLifecycles
     /\ op # "registerInstallation" => UNCHANGED providerInstallations
     /\ op # "registerUpdate" => UNCHANGED providerUpdates
     /\ op # "registerAutostart" => UNCHANGED providerAutostarts
     /\ ( op \in {"startProviderLifecycle", "stopProviderLifecycle"}
          /\ providerLifecycles[id] # NONE ) =>
          /\ Len(last'.invoked) = 1
          /\ last'.invoked[1].target = providerLifecycles[id]
     /\ ( op = "installProvider" /\ providerInstallations[id] # NoCapability ) =>
          /\ Len(last'.invoked) = 1
          /\ last'.invoked[1].target = providerInstallations[id]
     /\ ( op = "updateProvider" /\ providerUpdates[id] # NoCapability ) =>
          /\ Len(last'.invoked) = 1
          /\ last'.invoked[1].target = providerUpdates[id]
     /\ op = "runPreflightChecks" =>
          LET used == IF last'.args THEN providerUpdates[id] ELSE providerInstallations[id]
          IN /\ used = NoCapability => last'.result # "ok"
             /\ used = NoPreflightChecks => last'.ret = "false"
             /\ used = 0 => last'.ret = "true"
     /\ ( op = "runAutostart" /\ last'.ret = "pending" ) =>
          autostart'.at = providerAutostarts
     /\ op = "tick" =>
          /\ Len(last'.invoked) = Cardinality({p \in providers : providerLifecycles[p] # NONE})
          /\ \A p \in providers : providerLifecycles[p] # NONE =>
               \E i \in 1 .. Len(last'.invoked) :
                 last'.invoked[i].target = providerLifecycles[p]

C19_WitnessOtherOrder ==
  /\ last.op = "startProviderLifecycle"
  /\ BagIn(Handle("lifecycle", last.pid, "L1"), handles)
  /\ BagIn(Handle("lifecycle", last.pid, "L2"), handles)
  /\ last.after.op = "registerLifecycle"
  /\ last.invoked[1].target = "L1"

\* install has just been invoked on an installation registered second.
C19_WitnessInstall ==
  /\ last.op = "installProvider"
  /\ CopiesIn(Handle("installation", last.pid, NONE), handles) = 2
  /\ last.result = "ok"
  /\ last.invoked[1].target = 0

(* Specification of the calls for a provider that is not tracked: one
   provider is created and gets, in this order, a lifecycle, an installation,
   an update, a factory and a connection; it is disposed at any point; and
   every method that takes an internalId is called, one call at a time, with
   its id and with an id never given out. *)

NextNotFound ==
  \/ count = 0 /\ createProvider(PlainName, "started")
  \/ \E p \in PIDS : disposeProvider(p)
  \/ \E p \in PIDS : providerLifecycles[p] = NONE /\ registerLifecycle(p, "L1")
  \/ \E p \in PIDS : /\ providerLifecycles[p] # NONE
                     /\ providerInstallations[p] = NoCapability
                     /\ registerInstallation(p, NoPreflightChecks)
  \/ \E p \in PIDS : /\ providerInstallations[p] # NoCapability
                     /\ providerUpdates[p] = NoCapability
                     /\ registerUpdate(p, NoPreflightChecks)
  \/ \E p \in PIDS : /\ providerUpdates[p] # NoCapability
                     /\ setContainerProviderConnectionFactory(p)
  \/ \E p \in PIDS : /\ impl[p].containerProviderConnectionFactory
                     /\ registerContainerProviderConnection(p, "cStart")
  \/ lifecycleListeners = <<>> /\ addProviderLifecycleListener("l1")
  \/ /\ calls = EmptyBag
     /\ \/ \E p \in PIDS : intializeProviderLifecycle(p)
        \/ \E p \in PIDS : startProviderLifecycle(p)
        \/ \E p \in PIDS : stopProviderLifecycle(p)
        \/ \E p \in PIDS : startProvider(p)
        \/ \E p \in PIDS : initializeProvider(p)
        \/ \E p \in PIDS : installProvider(p)
        \/ \E p \in PIDS : updateProvider(p)
        \/ \E p \in PIDS : createProviderConnection(p, "params1")
        \/ \E p \in PIDS, info \in INFOS : startProviderConnection(p, info)
        \/ \E p \in PIDS, info \in INFOS : stopProviderConnection(p, info)
        \/ \E p \in PIDS, info \in INFOS : deleteProviderConnection(p, info)
  \/ \E c \in BagToSet(calls) : callResolved(c)

SpecNotFound == Init /\ [][NextNotFound]_vars

MethodsOfInternalId ==
  {"intializeProviderLifecycle", "startProviderLifecycle", "stopProviderLifecycle",
   "startProvider", "initializeProvider", "installProvider", "updateProvider",
   "createProviderConnection", "startProviderConnection", "stopProviderConnection",
   "deleteProviderConnection"}

\* C20: a call of one of these methods with an internalId that is not
\* tracked, because it never was given out or because the provider was
\* disposed, fails with the no provider matching error, delivers no event,
\* tracks no telemetry, invokes no method of a provider, suspends nothing and
\* leaves every map and list of the registry as it was.
NotFound ==
  ( last'.op \in MethodsOfInternalId /\ last'.pid \notin providers ) =>
    /\ last'.result = "no provider matching provider id"
    /\ last'.ret = "rejected"
    /\ last'.delivered = <<>>
    /\ last'.tracked = <<>>
    /\ last'.invoked = <<>>
    /\ UNCHANGED registry
    /\ UNCHANGED calls

C20_NotFoundHasNoSideEffects == [][NotFound]_vars

\* start of the lifecycle has just been refused for a disposed provider
\* whose lifecycle, context, connection and factory the registry still holds.
C20_Witness ==
  /\ last.op = "startProviderLifecycle"
  /\ last.pid < count
  /\ last.pid \notin providers
  /\ providerLifecycles[last.pid] = "L1"
  /\ providerLifecycleContexts[last.pid] # NONE
  /\ lifecycleListeners # <<>>
  /\ last.result = "no provider matching provider id"

\* delete of a connection has just been refused for an id never given out.
C20_WitnessNeverCreated ==
  /\ last.op = "deleteProviderConnection"
  /\ last.pid >= count
  /\ last.result = "no provider matching provider id"

-----------------------------------------------------------------------------
(* getProviderContainerConnectionInfo.  A ContainerProviderConnection is
   taken by what the function reads of it: name, status(), type, the socket
   path of its endpoint, and its lifecycle, which is absent or an object with
   any of the methods delete, start and stop. *)

CONNECTIONOBJECTS ==
  [ name : {"podman-machine-default", "docker"},
    status : STATUSES,
    type : {"podman", "docker"},
    socketPath : {"/run/a.sock", "/run/b.sock"},
    lifecycle : {[present |-> FALSE, methods |-> {}]}
                  \cup {[present |-> TRUE, methods |-> m] :
                          m \in SUBSET {"delete", "start", "stop"}} ]

\* lifecycleMethods is set only if (connection.lifecycle), to the methods
\* pushed in the order delete, start, stop; present tells whether it is set.
getProviderContainerConnectionInfoStartStop(connection) ==
  [ name |-> connection.name,
    status |-> connection.status,
    type |-> connection.type,
    endpoint |-> [socketPath |-> connection.socketPath],
    lifecycleMethods |-> [present |-> TRUE, methods |-> <<"start", "stop">>] ]

getProviderContainerConnectionInfo(connection) ==
  [ name |-> connection.name,
    status |-> connection.status,
    type |-> connection.type,
    endpoint |-> [socketPath |-> connection.socketPath],
    lifecycleMethods |->
      IF connection.lifecycle.present
        THEN [present |-> TRUE,
              methods |->
                (IF "delete" \in connection.lifecycle.methods THEN <<"delete">> ELSE <<>>)
                \o (IF "start" \in connection.lifecycle.methods THEN <<"start">> ELSE <<>>)
                \o (IF "stop" \in connection.lifecycle.methods THEN <<"stop">> ELSE <<>>)]
        ELSE [present |-> FALSE, methods |-> <<>>] ]

describeConnection(connection) ==
  /\ last' = [Quiet("getProviderContainerConnectionInfo", NOPID) EXCEPT
                !.args = connection,
                !.infos = << getProviderContainerConnectionInfo(connection) >>]
  /\ UNCHANGED <<imageRegistry, count, providers, impl, providerStatuses, providerLifecycles,
                 providerLifecycleContexts, providerInstallations, providerUpdates,
                 providerAutostarts, connectionLifecycleContexts, listeners,
                 lifecycleListeners, containerConnectionLifecycleListeners, handles,
                 calls, preflight, autostart, tickLog>>

(* Specification of the connection descriptor: the function is applied to
   connections of every shape. *)

NextDescribe == \E connection \in CONNECTIONOBJECTS : describeConnection(connection)

SpecDescribe == Init /\ [][NextDescribe]_vars

\* C30: the descriptor of a connection has lifecycleMethods exactly when the
\* connection has a lifecycle object, and then it lists each of delete,
\* start and stop that the lifecycle has, once, and nothing else (nothing at
\* all for a lifecycle without methods); name, status, type and socket path
\* are the connection's.
C30_LifecycleMethodsByPresence ==
  last.op = "getProviderContainerConnectionInfo" =>
    LET connection == last.args
        info == last.infos[1]
        listed == info.lifecycleMethods.methods
    IN /\ info.lifecycleMethods.present <=> connection.lifecycle.present
       /\ {listed[i] : i \in 1 .. Len(listed)} = connection.lifecycle.methods
       /\ Len(listed) = Cardinality(connection.lifecycle.methods)
       /\ info.name = connection.name
       /\ info.status = connection.status
       /\ info.type = connection.type
       /\ info.endpoint.socketPath = connection.socketPath

\* The descriptor of a connection whose lifecycle has delete and stop only;
\* of one whose lifecycle has no method; of one without a lifecycle.
C30_Witness ==
  /\ last.op = "getProviderContainerConnectionInfo"
  /\ last.args.lifecycle = [present |-> TRUE, methods |-> {"delete", "stop"}]
  /\ last.infos[1].lifecycleMethods = [present |-> TRUE, methods |-> <<"delete", "stop">>]

C30_WitnessEmpty ==
  /\ last.op = "getProviderContainerConnectionInfo"
  /\ last.args.lifecycle = [present |-> TRUE, methods |-> {}]
  /\ last.infos[1].lifecycleMethods = [present |-> TRUE, methods |-> <<>>]

C30_WitnessNoLifecycle ==
  /\ last.op = "getProviderContainerConnectionInfo"
  /\ ~last.args.lifecycle.present
  /\ ~last.infos[1].lifecycleMethods.present

(* Specification of the listener lists: listeners of the three kinds are
   added and removed, a listener possibly more than once, and events of the
   three kinds are emitted in between. *)

NextListeners ==
  \/ count = 0 /\ createProvider(PlainName, "started")
  \/ \E p \in PIDS : disposeProvider(p)
  \/ \E p \in PIDS : providerLifecycles[p] = NONE /\ registerLifecycle(p, "L1")
  \/ \E h \in BagToSet(handles) : disposeLifecycle(h)
  \/ \E l \in LISTENERS : addProviderListener(l)
  \/ \E l \in LISTENERS : removeProviderListener(l)
  \/ addProviderLifecycleListener("k1")
  \/ removeProviderLifecycleListener("k1")
  \/ addProviderContainerConnectionLifecycleListener("c1")
  \/ removeProviderContainerConnectionLifecycleListener("c1")
  \/ \E p \in PIDS : impl[p].containerConnections = <<>>
                       /\ registerContainerProviderConnection(p, "cStart")
  \/ \E p \in PIDS : onDidChangeContainerProviderConnectionStatus(p, "cStart")

SpecListeners == Init /\ [][NextListeners]_vars

\* The list each emitting call delivers to
EmitsTo ==
  [createProvider |-> listeners, disposeProvider |-> listeners,
   registerLifecycle |-> lifecycleListeners, disposeLifecycle |-> lifecycleListeners,
   registerContainerProviderConnection |-> containerConnectionLifecycleListeners,
   onDidChangeContainerProviderConnectionStatus |-> containerConnectionLifecycleListeners]

\* Within the call that emits it, an event goes to each entry of the list of
\* its kind, once per entry, in list order.
DeliveredInListOrder ==
  last'.op \in DOMAIN EmitsTo =>
    [i \in 1 .. Len(last'.delivered) |-> last'.delivered[i].to] = EmitsTo[last'.op]

Occurrences(list, x) == Cardinality({i \in 1 .. Len(list) : list[i] = x})

\* C28, as stated: delivery once per listener in list order; an add followed
\* by the remove of the same listener gives back the list the add found; and
\* the call that follows the removal of a listener delivers nothing to it.
AddRemoveRestores ==
  /\ DeliveredInListOrder
  /\ ( /\ last.op = "addProviderListener"
       /\ last'.op = "removeProviderListener"
       /\ last'.args = last.args ) => listeners' = last.before
  /\ ( /\ last.op = "addProviderLifecycleListener"
       /\ last'.op = "removeProviderLifecycleListener"
       /\ last'.args = last.args ) => lifecycleListeners' = last.before
  /\ last.op \in {"removeProviderListener", "removeProviderLifecycleListener"} =>
       \A i \in 1 .. Len(last'.delivered) : last'.delivered[i].to # last.args

C28_ListenersAsStated == [][AddRemoveRestores]_vars

\* C28, as the code has it: delivery once per entry of the list, in list
\* order; a remove takes out the first entry of the listener and no other,
\* or nothing when there is none; so an add followed by the remove of the
\* same listener leaves a list of the same entries as the one the add found,
\* and that very list when the listener was not in it.
RemoveTakesFirstEntry ==
  /\ DeliveredInListOrder
  /\ last'.op = "removeProviderListener" =>
       /\ \A x \in LISTENERS :
            Occurrences(listeners', x) =
              IF x = last'.args /\ Occurrences(listeners, x) > 0
                THEN Occurrences(listeners, x) - 1 ELSE Occurrences(listeners, x)
       /\ \A i \in 1 .. Len(listeners') :
            listeners'[i] = listeners[IF \E j \in 1 .. i : listeners[j] = last'.args
                                        THEN i + 1 ELSE i]
  /\ last'.op = "removeProviderLifecycleListener" =>
       Len(lifecycleListeners') =
         IF Occurrences(lifecycleListeners, last'.args) > 0
           THEN Len(lifecycleListeners) - 1 ELSE Len(lifecycleListeners)
  /\ ( /\ last.op = "addProviderListener"
       /\ last'.op = "removeProviderListener"
       /\ last'.args = last.args ) =>
       /\ \A x \in LISTENERS : Occurrences(listeners', x) = Occurrences(last.before, x)
       /\ Occurrences(last.before, last.args) = 0 => listeners' = last.before
  /\ ( /\ last.op = "addProviderLifecycleListener"
       /\ last'.op = "removeProviderLifecycleListener"
       /\ last'.args = last.args ) => lifecycleListeners' = last.before

C28_RemoveTakesFirstEntry == [][RemoveTakesFirstEntry]_vars

\* A listener that was in the list twice has just been removed and is still
\* in it.
C28_Witness ==
  /\ last.op = "removeProviderListener"
  /\ last.args = "l1"
  /\ last.before = <<"l1", "l1">>
  /\ listeners = <<"l1">>

\* Two different listeners have just got an event, in the order they were
\* added in.
C28_WitnessOrder ==
  /\ last.op = "disposeProvider"
  /\ listeners = <<"l2", "l1">>
  /\ Len(last.delivered) = 2
  /\ last.delivered[1].to = "l2"

\* C29: when a connection is registered, a context is held for it afterwards
\* and already while the listeners run, and each connection listener gets
\* one provider-container-connection:register event about the provider, in
\* list order; a status change of a connection gives each connection
\* listener one provider-container-connection:update-status event and leaves
\* the contexts, the maps and the lists of the registry as they were.
ConnectionEvents ==
  /\ last'.op = "registerContainerProviderConnection" =>
       /\ last'.args.connection \in connectionLifecycleContexts'
       /\ last'.args.connection \in last'.args.contexts
       /\ Len(last'.delivered) = Len(containerConnectionLifecycleListeners)
       /\ \A i \in 1 .. Len(last'.delivered) :
            /\ last'.delivered[i].to = containerConnectionLifecycleListeners[i]
            /\ last'.delivered[i].name = "provider-container-connection:register"
            /\ last'.delivered[i].info.internalId = last'.pid
  /\ last'.op = "onDidChangeContainerProviderConnectionStatus" =>
       /\ Len(last'.delivered) = Len(containerConnectionLifecycleListeners)
       /\ \A i \in 1 .. Len(last'.delivered) :
            /\ last'.delivered[i].to = containerConnectionLifecycleListeners[i]
            /\ last'.delivered[i].name = "provider-container-connection:update-status"
            /\ last'.delivered[i].info.internalId = last'.pid
       /\ UNCHANGED registry

C29_ConnectionEvents == [][ConnectionEvents]_vars

\* A connection has just been registered with two connection listeners
\* subscribed; and a status change has just been told to them.
C29_Witness ==
  /\ last.op = "registerContainerProviderConnection"
  /\ Len(last.delivered) = 2
  /\ last.args.connection \in connectionLifecycleContexts

C29_WitnessStatus ==
  /\ last.op = "onDidChangeContainerProviderConnectionStatus"
  /\ Len(last.delivered) = 2
  /\ connectionLifecycleContexts # {}

\* C32: removeProviderContainerConnectionLifecycleListener(l) takes an entry
\* of l out of the container-connection listeners (none of l is left when l
\* was in the list once) and leaves the provider-lifecycle listeners as they
\* were.
RemoveConnectionListener ==
  last'.op = "removeProviderContainerConnectionLifecycleListener" =>
    /\ Occurrences(containerConnectionLifecycleListeners', last'.args) =
         IF Occurrences(containerConnectionLifecycleListeners, last'.args) > 0
           THEN Occurrences(containerConnectionLifecycleListeners, last'.args) - 1
           ELSE 0
    /\ lifecycleListeners' = lifecycleListeners

C32_RemoveConnectionListener == [][RemoveConnectionListener]_vars

\* C32, as the code has it: the call leaves the container-connection
\* listeners as they were, so the listener keeps getting the connection
\* events, and takes out of the provider-lifecycle listeners the entry at the
\* index the listener has in the container-connection list, if there is one.
RemoveSplicesLifecycleListeners ==
  last'.op = "removeProviderContainerConnectionLifecycleListener" =>
    LET index == indexOf(containerConnectionLifecycleListeners, last'.args)
    IN /\ containerConnectionLifecycleListeners' = containerConnectionLifecycleListeners
       /\ Len(lifecycleListeners') =
            IF index # 0 /\ index <= Len(lifecycleListeners)
              THEN Len(lifecycleListeners) - 1 ELSE Len(lifecycleListeners)
       /\ \A i \in 1 .. Len(lifecycleListeners') :
            lifecycleListeners'[i] =
              lifecycleListeners[IF index # 0 /\ i >= index THEN i + 1 ELSE i]

C32_RemoveSplicesLifecycleListeners == [][RemoveSplicesLifecycleListeners]_vars

\* A connection event has just been delivered to the listener of the
\* container-connection list, with no provider-lifecycle listener registered
\* (C32_WitnessRemove is the removal that led there).
C32_Witness ==
  /\ last.op = "onDidChangeContainerProviderConnectionStatus"
  /\ containerConnectionLifecycleListeners = <<"c1">>
  /\ Len(last.delivered) = 1
  /\ last.delivered[1].to = "c1"
  /\ lifecycleListeners = <<>>

\* The removal itself: the listener is still in its list afterwards.
C32_WitnessRemove ==
  /\ last.op = "removeProviderContainerConnectionLifecycleListener"
  /\ last.args = "c1"
  /\ containerConnectionLifecycleListeners = <<"c1">>
  /\ lifecycleListeners = <<>>

(* Specification of interleaved lifecycle calls: lifecycles are registered,
   registered again and disposed, the provider is disposed, and initialize,
   start and stop calls are made and settle, in any order. *)

NextInterleave ==
  \/ count = 0 /\ createProvider(PlainName, "started")
  \/ \E p \in PIDS : disposeProvider(p)
  \/ \E p \in PIDS, lifecycle \in LIFECYCLES :
       ~BagIn(Handle("lifecycle", p, lifecycle), handles) /\ registerLifecycle(p, lifecycle)
  \/ \E h \in BagToSet(handles) : disposeLifecycle(h)
  \/ lifecycleListeners = <<>> /\ addProviderLifecycleListener("l1")
  \/ \E p \in PIDS : intializeProviderLifecycle(p)
  \/ \E p \in PIDS : startProviderLifecycle(p)
  \/ \E p \in PIDS : stopProviderLifecycle(p)
  \/ \E c \in BagToSet(calls) : callResolved(c)
  \/ \E c \in BagToSet(calls) : callRejected(c)

SpecInterleave == Init /\ [][NextInterleave]_vars

\* C33: in every reachable state a provider id has a lifecycle exactly when
\* it has a lifecycle context, and no initialize, start or stop call of a
\* provider lifecycle fails with the 'no lifecycle context matching provider
\* id' error.
C33_LifecycleAndContextTogether ==
  /\ \A p \in PIDS : providerLifecycles[p] = NONE <=> providerLifecycleContexts[p] = NONE
  /\ last.op \in {"intializeProviderLifecycle", "startProviderLifecycle",
                  "stopProviderLifecycle"} =>
       last.result # "no lifecycle context matching provider id"

\* A start call invoked the lifecycle that was registered second, with the
\* context stored for it, two lifecycle handles being live.
C33_Witness ==
  /\ last.op = "startProviderLifecycle"
  /\ last.result = "ok"
  /\ last.invoked = << Invocation("L2", "start", CTX) >>
  /\ BagCardinality(handles) = 2

\* No lifecycle and no context right after a lifecycle handle was disposed,
\* and a stop call failing on the lifecycle lookup.
C33_WitnessDisposed ==
  /\ last.op = "stopProviderLifecycle"
  /\ last.pid \in providers
  /\ last.result = "no provider lifecycle matching provider id"
  /\ providerLifecycleContexts[last.pid] = NONE

\* The lifecycle methods that have a before and an after event
KINDS == {"initialize", "start", "stop"}

\* C36: an after event of a kind about a provider is delivered only by the
\* step in which a call of that kind on that provider, in flight until then,
\* resumes, once to each lifecycle listener, and that call is in flight no
\* longer; and a call gets in flight only by the step that delivers the
\* before event of its kind about its provider to each lifecycle listener.
\* So the after events of a provider and kind never outnumber the before
\* events: they fall short by the calls in flight and the calls that rejected.
AfterMatchesBefore ==
  /\ \A i \in 1 .. Len(last'.delivered) : \A k \in KINDS :
       last'.delivered[i].name = "provider:after-" \o k \o "-lifecycle" =>
         /\ last'.op = "resolved"
         /\ last'.call.method = k
         /\ last'.call.pid = last'.delivered[i].info.internalId
         /\ BagIn(last'.call, calls)
         /\ calls' = calls (-) SetToBag({last'.call})
         /\ Len(last'.delivered) = Len(lifecycleListeners)
  /\ \A c \in BagToSet(calls') :
       CopiesIn(c, calls') > CopiesIn(c, calls) =>
         /\ calls' = calls (+) SetToBag({c})
         /\ c.method \in KINDS
         /\ last'.op = c.via
         /\ last'.pid = c.pid
         /\ Len(last'.delivered) = Len(lifecycleListeners)
         /\ \A i \in 1 .. Len(last'.delivered) :
              /\ last'.delivered[i].name = "provider:before-" \o c.method \o "-lifecycle"
              /\ last'.delivered[i].info.internalId = c.pid
              /\ last'.delivered[i].to = lifecycleListeners[i]

C36_AfterMatchesBefore == [][AfterMatchesBefore]_vars

\* One of two start calls in flight on a provider has resumed and delivered
\* its after event, the other is still in flight, and the lifecycle they were
\* made on has been replaced meanwhile.
C36_Witness ==
  /\ last.op = "resolved"
  /\ last.call = Call("startProviderLifecycle", last.pid, "L1", "start")
  /\ BagIn(last.call, calls)
  /\ Len(last.delivered) = 1
  /\ last.delivered[1].name = "provider:after-start-lifecycle"
  /\ providerLifecycles[last.pid] = "L2"

\* A stop call resumed after its lifecycle was disposed, a start call on the
\* same provider being in flight.
C36_WitnessDisposed ==
  /\ last.op = "resolved"
  /\ last.call.method = "stop"
  /\ Len(last.delivered) = 1
  /\ providerLifecycles[last.pid] = NONE
  /\ \E c \in BagToSet(calls) : c.method = "start" /\ c.pid = last.pid

(* Specification of handles after repeated registration: capabilities of the
   four kinds are registered, registered again and their handles disposed. *)

NextReRegister ==
  \/ count = 0 /\ createProvider(PlainName, "started")
  \/ /\ BagCardinality(handles) < MaxHandles
     /\ \/ \E p \in PIDS, l \in LIFECYCLES : registerLifecycle(p, l)
        \/ \E p \in PIDS, i \in 1 .. 2 : registerInstallation(p, i)
        \/ \E p \in PIDS, u \in 1 .. 2 : registerUpdate(p, u)
        \/ \E p \in PIDS, a \in AUTOSTARTS : registerAutostart(p, a)
  \/ \E h \in BagToSet(handles) : disposeLifecycle(h)
  \/ \E h \in BagToSet(handles) : disposeInstallation(h)
  \/ \E h \in BagToSet(handles) : disposeUpdate(h)
  \/ \E h \in BagToSet(handles) : disposeAutostart(h)
  \/ calls = EmptyBag /\ \E p \in PIDS : startProviderLifecycle(p)
  \/ \E c \in BagToSet(calls) : callResolved(c)

SpecReRegister == Init /\ [][NextReRegister]_vars

\* The capability maps by the kind of handle
MapOfKind(kind, lifecycles, installations, updates, autostarts) ==
  IF kind = "lifecycle" THEN lifecycles
  ELSE IF kind = "installation" THEN installations
  ELSE IF kind = "update" THEN updates
  ELSE autostarts

\* C34: the disposal of a handle of an earlier registration, a later
\* registration of the same kind for the same provider having its handle
\* live, leaves the later capability registered.  (A lifecycle handle is of
\* an earlier registration when its lifecycle is not the one registered;
\* handles of the other kinds are alike, and a disposal with two of them live
\* is that of the earlier one as well as that of the later one.)
HandleRemovesOwnRegistration ==
  \A h \in BagToSet(handles) :
    ( /\ CopiesIn(h, handles') < CopiesIn(h, handles)
      /\ IF h.kind = "lifecycle"
           THEN /\ providerLifecycles[h.pid] # h.cap
                /\ BagIn(Handle("lifecycle", h.pid, providerLifecycles[h.pid]), handles)
           ELSE CopiesIn(h, handles) >= 2 )
    => MapOfKind(h.kind, providerLifecycles', providerInstallations',
                 providerUpdates', providerAutostarts')[h.pid]
         = MapOfKind(h.kind, providerLifecycles, providerInstallations,
                     providerUpdates, providerAutostarts)[h.pid]

C34_HandleRemovesOwnRegistration == [][HandleRemovesOwnRegistration]_vars

\* C34, as the code has it: the disposal of a handle deletes the entry its
\* kind of map has for the provider, whichever registration made the entry,
\* and no other entry; a lifecycle handle deletes the lifecycle context as well.
DisposeDeletesByProvider ==
  \A h \in BagToSet(handles) :
    CopiesIn(h, handles') < CopiesIn(h, handles) =>
      /\ providerLifecycles' =
           IF h.kind = "lifecycle" THEN [providerLifecycles EXCEPT ![h.pid] = NONE]
                                   ELSE providerLifecycles
      /\ providerLifecycleContexts' =
           IF h.kind = "lifecycle" THEN [providerLifecycleContexts EXCEPT ![h.pid] = NONE]
                                   ELSE providerLifecycleContexts
      /\ providerInstallations' =
           IF h.kind = "installation"
             THEN [providerInstallations EXCEPT ![h.pid] = NoCapability]
             ELSE providerInstallations
      /\ providerUpdates' =
           IF h.kind = "update" THEN [providerUpdates EXCEPT ![h.pid] = NoCapability]
                                ELSE providerUpdates
      /\ providerAutostarts' =
           IF h.kind = "autostart" THEN [providerAutostarts EXCEPT ![h.pid] = NONE]
                                   ELSE providerAutostarts

C34_DisposeDeletesByProvider == [][DisposeDeletesByProvider]_vars

\* L1 and then L2 were registered for a provider and the handle of L1 was
\* disposed: the handle of L2 is live, no lifecycle is registered, and a
\* start call has just failed on the lifecycle lookup.
C34_Witness ==
  /\ last.op = "startProviderLifecycle"
  /\ last.pid \in providers
  /\ last.result = "no provider lifecycle matching provider id"
  /\ handles = SetToBag({Handle("lifecycle", last.pid, "L2")})
  /\ last.after.op = "disposeLifecycle"

\* The same for an installation: one of two handles was disposed and the
\* provider has no installation.
C34_WitnessInstallation ==
  /\ last.op = "disposeInstallation"
  /\ handles = SetToBag({Handle("installation", last.pid, NONE)})
  /\ providerInstallations[last.pid] = NoCapability

(* Specification of the events of a disposed provider: with a listener of
   each kind, a provider gets a lifecycle, is polled, started, stopped and
   disposed, and its lifecycle handle is disposed, in any order. *)

NextAfterDelete ==
  \/ listeners = <<>> /\ addProviderListener("l1")
  \/ lifecycleListeners = <<>> /\ addProviderLifecycleListener("k1")
  \/ /\ count = 0
     /\ listeners # <<>>
     /\ lifecycleListeners # <<>>
     /\ createProvider(PlainName, "started")
  \/ \E p \in PIDS : disposeProvider(p)
  \/ \E p \in PIDS : /\ ~BagIn(Handle("lifecycle", p, "L1"), handles)
                      /\ registerLifecycle(p, "L1")
  \/ \E h \in BagToSet(handles) : disposeLifecycle(h)
  \/ \E p \in PIDS : startProviderLifecycle(p)
  \/ \E p \in PIDS : stopProviderLifecycle(p)
  \/ \E c \in BagToSet(calls) : callResolved(c)
  \/ \E c \in BagToSet(calls) : callRejected(c)
  \/ \E status \in [Polled -> STATUSES] : tick(status)

SpecAfterDelete == Init /\ [][NextAfterDelete]_vars

\* The providers that were created and disposed: a provider:delete event was
\* emitted for each.
DisposedProviders == {p \in PIDS : p < count /\ p \notin providers}

\* C35: no step delivers an event other than provider:delete about a
\* provider that was disposed before the step.
NoEventAfterDelete ==
  \A i \in 1 .. Len(last'.delivered) :
    last'.delivered[i].info.internalId \in DisposedProviders =>
      last'.delivered[i].name = "provider:delete"

C35_NoEventAfterDelete == [][NoEventAfterDelete]_vars

\* C35, as the code has it: about a disposed provider no update-status and no
\* before-start or before-stop event is delivered, a start or stop call
\* failing on the provider lookup; the after event of a call that was in
\* flight is delivered when the call resolves, and register-lifecycle and
\* removal-lifecycle events are delivered when a lifecycle is registered for
\* it or its lifecycle handle is disposed.
EventsAfterDelete ==
  /\ \A i \in 1 .. Len(last'.delivered) :
       last'.delivered[i].info.internalId \in DisposedProviders =>
         \/ last'.delivered[i].name = "provider:delete"
         \/ /\ last'.op = "resolved"
            /\ last'.delivered[i].name \in {"provider:after-start-lifecycle",
                                            "provider:after-stop-lifecycle"}
         \/ /\ last'.op = "registerLifecycle"
            /\ last'.delivered[i].name = "provider:register-lifecycle"
         \/ /\ last'.op = "disposeLifecycle"
            /\ last'.delivered[i].name = "provider:removal-lifecycle"
  /\ ( /\ last'.op \in {"startProviderLifecycle", "stopProviderLifecycle"}
       /\ last'.pid \in DisposedProviders ) =>
       /\ last'.result = "no provider matching provider id"
       /\ last'.delivered = <<>>
  /\ ( /\ last'.op = "resolved"
       /\ last'.call.via \in {"startProviderLifecycle", "stopProviderLifecycle"} ) =>
       Len(last'.delivered) = Len(lifecycleListeners)
  /\ last'.op \in {"registerLifecycle", "disposeLifecycle"} =>
       Len(last'.delivered) = Len(lifecycleListeners)

C35_EventsAfterDelete == [][EventsAfterDelete]_vars

\* The start call of a provider resolved after the provider was disposed, and
\* the lifecycle listener got the after-start event about it.
C35_Witness ==
  /\ last.op = "resolved"
  /\ last.call.via = "startProviderLifecycle"
  /\ last.pid \in DisposedProviders
  /\ Len(last.delivered) = 1
  /\ last.delivered[1].name = "provider:after-start-lifecycle"
  /\ last.delivered[1].info.internalId = last.pid
  /\ listeners = <<"l1">>

\* The lifecycle handle of a disposed provider was disposed and the
\* removal-lifecycle event delivered.
C35_WitnessRemoval ==
  /\ last.op = "disposeLifecycle"
  /\ last.pid \in DisposedProviders
  /\ Len(last.delivered) = 1
  /\ last.delivered[1].name = "provider:removal-lifecycle"

(* Specification of failing lifecycle calls: a provider with a lifecycle is
   started, stopped and initialized, the calls resolve or reject, and the
   timer fires in between with whatever status() reports. *)

NextFailure ==
  \/ count = 0 /\ createProvider(PlainName, "started")
  \/ \E p \in PIDS : providerLifecycles[p] = NONE /\ registerLifecycle(p, "L1")
  \/ \E p \in PIDS : intializeProviderLifecycle(p)
  \/ \E p \in PIDS : startProviderLifecycle(p)
  \/ \E p \in PIDS : stopProviderLifecycle(p)
  \/ \E c \in BagToSet(calls) : callResolved(c)
  \/ \E c \in BagToSet(calls) : callRejected(c)
  \/ \E status \in [Polled -> STATUSES] : tick(status)

SpecFailure == Init /\ [][NextFailure]_vars

\* C23: neither a start, stop or initialize call of a provider lifecycle nor
\* the rejection of what it awaits changes a provider's stored status, the
\* cached baseline or a capability map; the stored status of a tracked
\* provider changes in a tick only, and after a tick the stored status of a
\* polled provider is what status() returned in that tick.
FailureLeavesRegistry ==
  /\ ( \/ last'.op \in {"intializeProviderLifecycle", "startProviderLifecycle",
                        "stopProviderLifecycle"}
       \/ /\ last'.op = "rejected"
          /\ last'.call.via \in {"intializeProviderLifecycle", "startProviderLifecycle",
                                 "stopProviderLifecycle"} ) =>
       /\ UNCHANGED <<imageRegistry, impl, providerStatuses>>
       /\ UNCHANGED <<imageRegistry, providerLifecycles, providerLifecycleContexts, providerInstallations,
                      providerUpdates, providerAutostarts>>
  /\ \A p \in providers :
       impl'[p].status # impl[p].status => last'.op = "tick"
  /\ last'.op = "tick" =>
       \A p \in providers :
         providerLifecycles[p] # NONE => impl'[p].status = last'.polled[p]

C23_FailingLifecycleCallChangesNothing == [][FailureLeavesRegistry]_vars

\* A start has just rejected for a provider stored as started; and a tick
\* has just stored stopped while a start that rejects later was in flight.
C23_Witness ==
  /\ last.op = "rejected"
  /\ last.call.via = "startProviderLifecycle"
  /\ impl[last.pid].status = "started"
  /\ providerStatuses[last.pid] = "started"

C23_WitnessTick ==
  /\ last.op = "tick"
  /\ \E c \in BagToSet(calls) :
       /\ c.via = "startProviderLifecycle"
       /\ impl[c.pid].status = "stopped"

(* Specification of provider disposal: a provider gets capabilities of every
   kind, is polled, and is disposed at any point, its registrations being
   disposed or not. *)

NextDispose ==
  \/ count = 0 /\ createProvider(PlainName, "started")
  \/ \E p \in PIDS : disposeProvider(p)
  \/ \E p \in PIDS :
       ~BagIn(Handle("lifecycle", p, "L1"), handles) /\ registerLifecycle(p, "L1")
  \/ \E p \in PIDS :
       ~BagIn(Handle("installation", p, NONE), handles) /\ registerInstallation(p, 1)
  \/ \E p \in PIDS :
       ~BagIn(Handle("update", p, NONE), handles) /\ registerUpdate(p, 1)
  \/ \E p \in PIDS :
       ~BagIn(Handle("autostart", p, NONE), handles) /\ registerAutostart(p, "A1")
  \/ \E h \in BagToSet(handles) : disposeLifecycle(h)
  \/ \E h \in BagToSet(handles) : disposeInstallation(h)
  \/ \E h \in BagToSet(handles) : disposeUpdate(h)
  \/ \E h \in BagToSet(handles) : disposeAutostart(h)
  \/ addProviderListener("l1")
  \/ lifecycleListeners = <<>> /\ addProviderLifecycleListener("l1")
  \/ \E status \in [Polled -> STATUSES] : tick(status)
  \/ autostart.state = "idle" /\ runAutostart

SpecDispose == Init /\ [][NextDispose]_vars

\* C24: registering an installation, an update or an autostart, and disposing
\* of the handle of one, delivers no event, tracks nothing, and changes the
\* map of its kind only; and at every point the provider info of a provider
\* has installationSupport true exactly when providerInstallations has its
\* id, and updateInfo exactly when providerUpdates has it.
CapabilityFrame ==
  /\ last'.op \in {"registerInstallation", "disposeInstallation", "registerUpdate",
                   "disposeUpdate", "registerAutostart", "disposeAutostart"} =>
       /\ last'.delivered = <<>>
       /\ last'.tracked = <<>>
       /\ last'.invoked = <<>>
       /\ UNCHANGED <<imageRegistry, count, providers, impl, providerStatuses, providerLifecycles,
                      providerLifecycleContexts, connectionLifecycleContexts, listeners,
                      lifecycleListeners, containerConnectionLifecycleListeners, calls>>
  /\ last'.op \notin {"registerInstallation", "disposeInstallation"} =>
       UNCHANGED providerInstallations
  /\ last'.op \notin {"registerUpdate", "disposeUpdate"} => UNCHANGED providerUpdates
  /\ last'.op \notin {"registerAutostart", "disposeAutostart"} =>
       UNCHANGED providerAutostarts
  /\ last'.op = "registerInstallation" => providerInstallations'[last'.pid] = last'.args
  /\ last'.op = "disposeInstallation" => providerInstallations'[last'.pid] = NoCapability
  /\ last'.op = "registerUpdate" => providerUpdates'[last'.pid] = last'.args
  /\ last'.op = "disposeUpdate" => providerUpdates'[last'.pid] = NoCapability
  /\ \A p \in 0 .. (count' - 1) :
       /\ Info(p)'.installationSupport <=> providerInstallations'[p] # NoCapability
       /\ Info(p)'.updateInfo <=> providerUpdates'[p] # NoCapability
  /\ \A i \in 1 .. Len(last'.delivered) :
       LET info == last'.delivered[i].info
       IN /\ info.installationSupport <=> providerInstallations'[info.internalId] # NoCapability
          /\ info.updateInfo <=> providerUpdates'[info.internalId] # NoCapability

C24_CapabilityRegistrationFrame == [][CapabilityFrame]_vars

\* A listener is subscribed and a status event has just told it of a provider
\* with an installation and without an update, the update's handle having
\* been disposed.
C24_Witness ==
  /\ last.op = "tick"
  /\ Len(last.delivered) > 0
  /\ last.delivered[1].info.installationSupport
  /\ ~last.delivered[1].info.updateInfo
  /\ ~BagIn(Handle("update", last.delivered[1].info.internalId, NONE), handles)
  /\ BagIn(Handle("installation", last.delivered[1].info.internalId, NONE), handles)

\* An update's handle has just been disposed with listeners of both kinds
\* subscribed.
C24_WitnessDispose ==
  /\ last.op = "disposeUpdate"
  /\ listeners # <<>>
  /\ lifecycleListeners # <<>>
  /\ providerInstallations[last.pid] # NoCapability

\* C12, as stated: right after disposeProvider(p) no map of the registry has
\* an entry under p's internalId, and the call delivered one provider:delete
\* event about p to each listener.
C12_DisposeRemovesDerivedState ==
  last.op = "disposeProvider" =>
    /\ last.pid \notin providers
    /\ providerLifecycles[last.pid] = NONE
    /\ providerLifecycleContexts[last.pid] = NONE
    /\ providerInstallations[last.pid] = NoCapability
    /\ providerUpdates[last.pid] = NoCapability
    /\ providerAutostarts[last.pid] = NONE
    /\ providerStatuses[last.pid] = NONE
    /\ Receivers(About(last.delivered, last.pid)) = listeners

\* What disposeProvider does do: the provider leaves the provider map, one
\* provider:delete event about it goes to each listener, and every other map
\* keeps what it had.
C12_DisposeRemovesProviderOnly ==
  [][ last'.op = "disposeProvider" =>
        /\ providers' = providers \ {last'.pid}
        /\ Receivers(About(last'.delivered, last'.pid)) = listeners
        /\ \A i \in 1 .. Len(last'.delivered) :
             last'.delivered[i].name = "provider:delete"
        /\ UNCHANGED <<imageRegistry, count, providerStatuses, providerLifecycles,
                       providerLifecycleContexts, providerInstallations,
                       providerUpdates, providerAutostarts,
                       connectionLifecycleContexts>> ]_vars

\* C37: a runAutostart call invokes the autostart capability of no provider
\* that is not tracked when it is made.
C37_AutostartOfTrackedOnly ==
  ( last.op = "runAutostart" /\ last.ret = "pending" ) =>
    \A p \in PIDS : autostart.invoked[p] > 0 => p \in providers

\* C37, as the code has it: a runAutostart call invokes start once on the
\* autostart registered for every provider id, tracked or disposed, and on
\* nothing else.
C37_AutostartOfEveryEntry ==
  ( last.op = "runAutostart" /\ last.ret = "pending" ) =>
    \A p \in PIDS :
      autostart.invoked[p] = IF providerAutostarts[p] # NONE THEN 1 ELSE 0

\* A runAutostart call has just invoked the autostart of a provider that was
\* disposed before, no provider being tracked.
C37_Witness ==
  /\ last.op = "runAutostart"
  /\ last.ret = "pending"
  /\ \E p \in PIDS : /\ p < count
                      /\ p \notin providers
                      /\ autostart.invoked[p] = 1
                      /\ autostart.at[p] = "A1"
  /\ providers = {}

\* A provider with a lifecycle, an installation, an update, an autostart and a
\* cached status has just been disposed, and all of them are still held.
C12_Witness ==
  /\ last.op = "disposeProvider"
  /\ last.pid \notin providers
  /\ providerLifecycles[last.pid] = "L1"
  /\ providerLifecycleContexts[last.pid] = CTX
  /\ providerInstallations[last.pid] = 1
  /\ providerUpdates[last.pid] = 1
  /\ providerAutostarts[last.pid] = "A1"
  /\ providerStatuses[last.pid] \in STATUSES
  /\ listeners # <<>>

-----------------------------------------------------------------------------
(* getProviderInfos and the comparison it sorts by *)

\* Lexicographic comparison of two sequences of numbers: -1, 0 or 1.  A proper
\* prefix comes first.
SeqCmp(s, t) ==
  LET n == IF Len(s) < Len(t) THEN Len(s) ELSE Len(t)
      D == {i \in 1 .. n : s[i] # t[i]}
  IN IF D # {} THEN (IF s[Min(D)] < t[Min(D)] THEN -1 ELSE 1)
     ELSE IF Len(s) < Len(t) THEN -1
     ELSE IF Len(s) > Len(t) THEN 1
     ELSE 0

\* String.prototype.localeCompare on names of ASCII letters, as the ICU
\* collation of the runtime orders them: first by the letters with case
\* ignored, and between names that differ in case only, lower case first.
IsUpper(c) == c >= 65 /\ c <= 90
PrimaryKey(s) == [i \in 1 .. Len(s) |-> IF IsUpper(s[i]) THEN s[i] + 32 ELSE s[i]]
CaseKey(s) == [i \in 1 .. Len(s) |-> IF IsUpper(s[i]) THEN 1 ELSE 0]

localeCompare(s, t) ==
  IF SeqCmp(PrimaryKey(s), PrimaryKey(t)) # 0
    THEN SeqCmp(PrimaryKey(s), PrimaryKey(t))
    ELSE SeqCmp(CaseKey(s), CaseKey(t))

\* (provider1, provider2) => provider2.name.localeCompare(provider1.name)
compareProviderInfosAscending(provider1, provider2) ==
  localeCompare(provider1.name, provider2.name)

compareProviderInfos(provider1, provider2) ==
  localeCompare(provider2.name, provider1.name)

\* Array.prototype.sort with that comparator.  The sort is stable: x goes
\* behind every element that does not have to follow it.
InsertInfo(sorted, x) ==
  SelectSeq(sorted, LAMBDA e : compareProviderInfos(e, x) <= 0)
    \o <<x>> \o
  SelectSeq(sorted, LAMBDA e : compareProviderInfos(e, x) > 0)

RECURSIVE sortInfos(_)
sortInfos(infos) ==
  IF infos = <<>> THEN <<>>
  ELSE InsertInfo(sortInfos(SubSeq(infos, 1, Len(infos) - 1)), infos[Len(infos)])

\* Array.from(this.providers.values()).map(provider => this.getProviderInfo(provider))
mapProviderInfos ==
  LET order == Ascending(providers)
  IN [i \in 1 .. Len(order) |-> Info(order[i])]

getProviderInfos == sortInfos(mapProviderInfos)

queryProviderInfos ==
  /\ last' = [Quiet("getProviderInfos", NOPID) EXCEPT !.infos = getProviderInfos]
  /\ UNCHANGED <<imageRegistry, count, providers, impl, providerStatuses, providerLifecycles,
                 providerLifecycleContexts, providerInstallations, providerUpdates,
                 providerAutostarts, connectionLifecycleContexts, listeners,
                 lifecycleListeners, containerConnectionLifecycleListeners, handles,
                 calls, preflight, autostart, tickLog>>

(* Specification of the provider list: providers of any names are created and
   disposed in any order, and the list is queried in between. *)

NextInfos ==
  \/ \E name \in NAMES, s \in {"started"} : createProvider(name, s)
  \/ \E p \in PIDS : disposeProvider(p)
  \/ queryProviderInfos

SpecInfos == Init /\ [][NextInfos]_vars

\* The providers created so far, disposed or not
Created == {p \in PIDS : impl[p] # NoProviderImpl}

\* C13: the counter never decreases, and every createProvider returns an
\* internalId that no provider created before has, disposed or not.
C13_InternalIdNeverReused ==
  [][ /\ count' >= count
      /\ last'.op = "createProvider" =>
           /\ count' > count
           /\ \A p \in Created : internalId(p) # internalId(last'.pid)
           /\ Created' = Created \cup {last'.pid} ]_vars

\* A provider was created after the first one was disposed, and got another
\* internalId.
C13_Witness ==
  /\ last.op = "createProvider"
  /\ last.pid = 1
  /\ 0 \in Created
  /\ 0 \notin providers

\* getProviderInfos has just returned last.infos: one descriptor for each
\* tracked provider and no other.
OnePerTrackedProvider ==
  /\ Len(last.infos) = Cardinality(providers)
  /\ \A p \in providers : \E i \in 1 .. Len(last.infos) : last.infos[i] = Info(p)

\* C3, as stated: the descriptors come in descending lexicographic order of
\* their names (names compared code unit by code unit).
C3_SortedDescendingLexicographic ==
  last.op = "getProviderInfos" =>
    /\ OnePerTrackedProvider
    /\ \A i, j \in 1 .. Len(last.infos) :
         i < j => SeqCmp(last.infos[i].name, last.infos[j].name) >= 0

\* C3, amended: getProviderInfos returns one descriptor per tracked provider,
\* in descending order of name under localeCompare (alphabetical with case
\* ignored, lower case before upper case between names equal but for case),
\* whatever the order of creation and disposal.  That is not lexicographic
\* order: "Aa" sorts below "ab" although "A" sorts above "a".
C3_SortedDescendingByLocaleCompare ==
  last.op = "getProviderInfos" =>
    /\ OnePerTrackedProvider
    /\ \A i, j \in 1 .. Len(last.infos) :
         i < j => localeCompare(last.infos[i].name, last.infos[j].name) >= 0

\* The list was returned in an order that differs from the order of creation:
\* "a" was created before "B", and "B" comes first.
C3_Witness ==
  /\ last.op = "getProviderInfos"
  /\ Len(last.infos) = 2
  /\ last.infos[1].name = <<66>>
  /\ last.infos[2].name = <<97>>
  /\ last.infos[1].internalId > last.infos[2].internalId

-----------------------------------------------------------------------------
(* Specification of the reconciliation loop: providers are created and
   disposed, their lifecycles are registered and removed (a lifecycle is
   registered again once its handle was disposed), listeners subscribe and
   unsubscribe, the timer fires. *)

NextTick ==
  \/ createProvider(PlainName, "stopped")
  \/ \E p \in PIDS : disposeProvider(p)
  \/ \E p \in PIDS : /\ ~BagIn(Handle("lifecycle", p, "L1"), handles)
                      /\ registerLifecycle(p, "L1")
  \/ \E h \in BagToSet(handles) : disposeLifecycle(h)
  \/ \E l \in LISTENERS : Occurrences(listeners, l) = 0 /\ addProviderListener(l)
  \/ \E l \in LISTENERS : removeProviderListener(l)
  \/ \E status \in [Polled -> STATUSES] : tick(status)

SpecTick == Init /\ [][NextTick]_vars

\* C22: a createProvider step succeeds; the id it gives out is the counter,
\* which no provider tracked or created before has; afterwards the counter
\* is one more and the provider is tracked under the id; each entry of the
\* provider listeners gets one provider:create event about the new provider,
\* in list order, the providers map holding the new id while they run;
\* and one createProvider telemetry event is recorded.
CreateProviderStep ==
  last'.op = "createProvider" =>
    /\ last'.result = "ok"
    /\ last'.pid = count
    /\ last'.pid \notin providers
    /\ count' = count + 1
    /\ providers' = providers \cup {last'.pid}
    /\ Len(last'.delivered) = Len(listeners)
    /\ \A i \in 1 .. Len(listeners) :
         /\ last'.delivered[i].to = listeners[i]
         /\ last'.delivered[i].name = "provider:create"
         /\ last'.delivered[i].info.internalId = last'.pid
         /\ last'.delivered[i].info.name = impl'[last'.pid].name
    /\ last'.pid \in last'.args
    /\ Len(last'.tracked) = 1
    /\ last'.tracked[1][1] = "createProvider"

C22_CreateProviderInOneStep == [][CreateProviderStep]_vars

\* A second provider has just been created with two listeners subscribed,
\* the first provider being disposed by then.
C22_Witness ==
  /\ last.op = "createProvider"
  /\ last.pid = 1
  /\ providers = {1}
  /\ Len(last.delivered) = 2
  /\ Len(listeners) = 2

\* C27: a tick calls status() for the providers that are tracked and have a
\* lifecycle registered, once each, and for no other; for a provider that is
\* not tracked or has no lifecycle registered it delivers nothing and leaves
\* the stored status and the baseline as they were.
TickPollsTrackedWithLifecycle ==
  last'.op = "tick" =>
    /\ DOMAIN last'.polled = {p \in providers : providerLifecycles[p] # NONE}
    /\ Len(last'.invoked) = Cardinality({p \in providers : providerLifecycles[p] # NONE})
    /\ \A p \in PIDS :
         ( p \notin providers \/ providerLifecycles[p] = NONE ) =>
           /\ impl'[p] = impl[p]
           /\ providerStatuses'[p] = providerStatuses[p]
           /\ \A i \in 1 .. Len(last'.delivered) :
                last'.delivered[i].info.internalId # p

C27_TickPollsTrackedWithLifecycleOnly == [][TickPollsTrackedWithLifecycle]_vars

\* A tick has just told a listener of one provider while the other one,
\* disposed, still has its lifecycle registered; and while the other one,
\* tracked, has had its lifecycle handle disposed.
C27_Witness ==
  /\ last.op = "tick"
  /\ Len(last.delivered) > 0
  /\ \E p \in PIDS :
       /\ p < count
       /\ p \notin providers
       /\ providerLifecycles[p] # NONE
       /\ p \notin DOMAIN last.polled

C27_WitnessNoLifecycle ==
  /\ last.op = "tick"
  /\ Len(last.delivered) > 0
  /\ \E p \in providers :
       /\ providerLifecycles[p] = NONE
       /\ p \notin DOMAIN last.polled

\* C38: in a tick, for every provider whose polled status differs from the
\* cached one, the listeners are told once, with an info that has the polled
\* status; while they run the provider's stored status is the polled one
\* already (and so is that of the changed providers earlier in the loop, the
\* later ones having their old status still) and the cached baseline is the
\* old one still; after the tick the baseline is the polled status.
TickWritesStatusThenNotifies ==
  last'.op = "tick" =>
    LET changed == {p \in Polled : last'.polled[p] # providerStatuses[p]}
        found == last'.args
    IN /\ Len(found) = Cardinality(changed)
       /\ \A i \in 1 .. Len(found) :
            LET p == found[i].about
            IN /\ p \in changed
               /\ \A j \in 1 .. Len(found) : j < i => found[j].about < p
               /\ found[i].stored[p] = last'.polled[p]
               /\ \A q \in PIDS :
                    found[i].stored[q] =
                      IF q \in changed /\ q <= p THEN last'.polled[q] ELSE impl[q].status
               /\ found[i].baseline = providerStatuses[p]
               /\ found[i].baseline # last'.polled[p]
               /\ providerStatuses'[p] = last'.polled[p]
               /\ impl'[p].status = last'.polled[p]
       /\ \A i \in 1 .. Len(last'.delivered) :
            /\ last'.delivered[i].name = "provider:update-status"
            /\ last'.delivered[i].info.internalId \in changed
            /\ last'.delivered[i].info.status =
                 last'.polled[last'.delivered[i].info.internalId]

C38_TickWritesStatusThenNotifies == [][TickWritesStatusThenNotifies]_vars

\* A tick found two providers changed, with a listener subscribed: when the
\* listener was told of the first, the second had its old status still.
C38_Witness ==
  /\ last.op = "tick"
  /\ Len(last.args) = 2
  /\ Len(last.delivered) >= 2
  /\ last.args[1].stored[last.args[2].about] # last.polled[last.args[2].about]
  /\ last.args[1].stored[last.args[1].about] = last.polled[last.args[1].about]
  /\ last.args[1].baseline # last.polled[last.args[1].about]

(* The same loop with the observer on and a single provider: tickLog holds
   what the first MaxTickLog ticks after a registration polled and delivered. *)

InitPoll ==
  /\ InitRegistry
  /\ tickLog = [on |-> TRUE, pid |-> NOPID, polls |-> <<>>]

NextPoll ==
  \/ \E s \in STATUSES : count = 0 /\ createProvider(PlainName, s)
  \/ \E p \in PIDS : /\ ~BagIn(Handle("lifecycle", p, "L1"), handles)
                      /\ registerLifecycle(p, "L1")
  \/ \E h \in BagToSet(handles) : disposeLifecycle(h)
  \/ \E l \in LISTENERS : addProviderListener(l)
  \/ \E status \in [Polled -> STATUSES] : tick(status)

SpecPoll == InitPoll /\ [][NextPoll]_vars

\* The three polls A, A, B (B # A) of claim C1 are on record.
PolledAAB ==
  /\ Len(tickLog.polls) >= 3
  /\ tickLog.polls[1].polled = tickLog.polls[2].polled
  /\ tickLog.polls[3].polled # tickLog.polls[2].polled

\* C1, as stated: when the first three ticks after a registration poll A, A
\* and B, only the third delivers provider:update-status, one to each listener.
\* The code delivers on the first tick too when A is not the cached baseline.
C1_OneEventOnTransition ==
  PolledAAB =>
    /\ tickLog.polls[1].n = 0
    /\ tickLog.polls[2].n = 0
    /\ tickLog.polls[3].toEach

\* C1, amended: when the first three ticks after a registration poll A, A and
\* B (B # A), the third tick delivers exactly one provider:update-status to
\* each entry of the listener list, the second delivers none, and the first
\* delivers one to each entry exactly when A differs from the baseline cached
\* for the provider (always, for a provider that was never polled before).
C1_EventOnTransitionAndOnFirstPoll ==
  PolledAAB =>
    /\ tickLog.polls[3].fired
    /\ tickLog.polls[3].toEach
    /\ ~tickLog.polls[2].fired
    /\ tickLog.polls[2].n = 0
    /\ tickLog.polls[1].fired <=> (tickLog.polls[1].polled # tickLog.polls[1].baseline)
    /\ IF tickLog.polls[1].fired THEN tickLog.polls[1].toEach
                                 ELSE tickLog.polls[1].n = 0

\* A never-polled provider polled A, A, B with two listeners subscribed: both
\* got an event on the first tick and on the third.
C1_Witness ==
  /\ PolledAAB
  /\ tickLog.polls[1].baseline = NONE
  /\ tickLog.polls[1].n = 2
  /\ tickLog.polls[3].n = 2
  /\ tickLog.polls[3].toEach
  /\ last.op = "tick"

\* C2: a tick emits provider:update-status for a polled provider exactly when
\* the polled status differs from the cached baseline; then the stored status
\* and the baseline become the polled value and each listener entry gets one
\* delivery, in list order, carrying the new status; otherwise the provider's
\* status and baseline stay as they were and nothing is delivered about it.
C2_TickEmitsIffStatusDiffers ==
  [][last'.op = "tick" =>
       \A p \in PIDS :
         IF p \in Polled /\ last'.polled[p] # providerStatuses[p]
           THEN /\ impl'[p].status = last'.polled[p]
                /\ providerStatuses'[p] = last'.polled[p]
                /\ About(last'.delivered, p) =
                     Notify(listeners, "provider:update-status",
                            [Info(p) EXCEPT !.status = last'.polled[p]])
           ELSE /\ impl'[p] = impl[p]
                /\ providerStatuses'[p] = providerStatuses[p]
                /\ About(last'.delivered, p) = <<>>]_vars

\* One tick polled two providers, one changed and one unchanged, with two
\* listeners subscribed.
C2_Witness ==
  /\ last.op = "tick"
  /\ Len(listeners) = 2
  /\ \E p, q \in DOMAIN last.polled :
        /\ Len(About(last.delivered, p)) = 2
        /\ About(last.delivered, q) = <<>>

-----------------------------------------------------------------------------
(* ImageRegistry (image-registry.ts).  A Registry is serverUrl, source,
   username and secret; source is the name of the registry provider it came
   from.  Registry providers are registered by name; registries are created
   through a registered provider, updated, and unregistered by the Disposable
   createRegistry returned. *)

URLS == {"docker.io", "quay.io"}

SOURCES == {"P1", "P2"}

USERS == {"u1", "u2"}

\* The secret that goes with a user name
secretOf(username) == IF username = "u1" THEN "s1" ELSE "s2"

REGISTRIES ==
  {[serverUrl |-> url, source |-> source, username |-> u, secret |-> secretOf(u)] :
     url \in URLS, source \in SOURCES, u \in USERS}

\* RegistryCreateOptions
OPTIONS ==
  {[serverUrl |-> url, username |-> u, secret |-> secretOf(u)] : url \in URLS, u \in USERS}

\* What the Disposable of a registry or of a registry provider closes over
RegistryOf(serverUrl, source) == [serverUrl |-> serverUrl, source |-> source]

\* provider.create(registryCreateOptions) (the providers are extensions, not
\* among the sources): the registry of that provider for these options.
create(providerName, registryCreateOptions) ==
  [serverUrl |-> registryCreateOptions.serverUrl,
   source |-> providerName,
   username |-> registryCreateOptions.username,
   secret |-> registryCreateOptions.secret]

\* registries.find(registry => registry.serverUrl === options.serverUrl &&
\*                             registry.source === providerName)
existsNever(registries, serverUrl, providerName) == FALSE

exists(registries, serverUrl, providerName) ==
  \E i \in 1 .. Len(registries) :
    registries[i].serverUrl = serverUrl /\ registries[i].source = providerName

\* The predicate of the find of updateRegistry, as written:
\* registry.serverUrl === registry.serverUrl &&
\*   registry.source === existringRegistry.source
matchesUpdate(existringRegistry, newRegistry) ==
  /\ newRegistry.serverUrl = newRegistry.serverUrl
  /\ newRegistry.source = existringRegistry.source

\* Index of the element find returns, 0 for undefined
findIndexForUpdate(registries, newRegistry) ==
  IF \E i \in 1 .. Len(registries) : matchesUpdate(registries[i], newRegistry)
    THEN Min({i \in 1 .. Len(registries) : matchesUpdate(registries[i], newRegistry)})
    ELSE 0

registerRegistryProvider(name) ==
  /\ ~BagIn(Handle("registryProvider", NOPID, RegistryOf(NONE, name)), handles)
  /\ imageRegistry' = [imageRegistry EXCEPT !.providers = @ \cup {name}]
  /\ handles' = NewHandle(Handle("registryProvider", NOPID, RegistryOf(NONE, name)))
  /\ last' = [Quiet("registerRegistryProvider", NOPID) EXCEPT !.args = name]
  /\ UNCHANGED <<registry, calls, preflight, autostart, tickLog>>

\* The callback of the Disposable registerRegistryProvider returned.
disposeRegistryProvider(h) ==
  /\ BagIn(h, handles)
  /\ h.kind = "registryProvider"
  /\ imageRegistry' = [imageRegistry EXCEPT !.providers = @ \ {h.cap.source}]
  /\ handles' = Disposed(h)
  /\ last' = [Quiet("disposeRegistryProvider", NOPID) EXCEPT !.args = h.cap.source]
  /\ UNCHANGED <<registry, calls, preflight, autostart, tickLog>>

\* createRegistry, registerRegistry included: the two throws, provider.create,
\* the createRegistry telemetry, then the append, the registerRegistry
\* telemetry, apiSender.send and the register event.
createRegistry(providerName, registryCreateOptions) ==
  LET args == [providerName |-> providerName, options |-> registryCreateOptions]
      made == create(providerName, registryCreateOptions)
  IN /\ IF providerName \notin imageRegistry.providers
          THEN /\ last' = [Quiet("createRegistry", NOPID) EXCEPT
                             !.args = args, !.before = imageRegistry.registries,
                             !.result = "Provider " \o providerName \o " not found"]
               /\ UNCHANGED <<imageRegistry, handles>>
        ELSE IF exists(imageRegistry.registries, registryCreateOptions.serverUrl,
                       providerName)
          THEN /\ last' = [Quiet("createRegistry", NOPID) EXCEPT
                             !.args = args, !.before = imageRegistry.registries,
                             !.result = "Registry " \o registryCreateOptions.serverUrl
                                          \o " already exists"]
               /\ UNCHANGED <<imageRegistry, handles>>
        ELSE /\ Len(imageRegistry.registries) < MaxRegistries
             /\ CanHandle(Handle("registry", NOPID, RegistryOf(made.serverUrl, made.source)))
             /\ imageRegistry' = [imageRegistry EXCEPT !.registries = Append(@, made)]
             /\ handles' = NewHandle(Handle("registry", NOPID,
                                            RegistryOf(made.serverUrl, made.source)))
             /\ last' = [Quiet("createRegistry", NOPID) EXCEPT
                           !.args = args, !.before = imageRegistry.registries,
                           !.steps = <<"track:createRegistry", "track:registerRegistry",
                                       "send:registry-register",
                                       "fire:onDidRegisterRegistry">>,
                           !.infos = <<made>>]
     /\ UNCHANGED <<registry, calls, preflight, autostart, tickLog>>

\* The callback of the Disposable createRegistry returned:
\* unregisterRegistry(registry).
disposeRegistry(h) ==
  /\ BagIn(h, handles)
  /\ h.kind = "registry"
  /\ LET filtered == SelectSeq(imageRegistry.registries,
                       LAMBDA registryItem :
                         \/ registryItem.serverUrl # h.cap.serverUrl
                         \/ h.cap.source # registryItem.source)
     IN /\ imageRegistry' = [imageRegistry EXCEPT !.registries = filtered]
        /\ last' = [Quiet("disposeRegistry", NOPID) EXCEPT
                      !.args = h.cap, !.before = imageRegistry.registries,
                      !.steps = IF Len(filtered) # Len(imageRegistry.registries)
                                  THEN <<"fire:onDidUnregisterRegistry",
                                         "send:registry-unregister",
                                         "track:unregisterRegistry">>
                                  ELSE <<"track:unregisterRegistry">>,
                      !.infos = IF Len(filtered) # Len(imageRegistry.registries)
                                  THEN <<h.cap>> ELSE <<>>]
  /\ handles' = Disposed(h)
  /\ UNCHANGED <<registry, calls, preflight, autostart, tickLog>>

\* registry, the second argument, is newRegistry here.
updateRegistry(registryUrl, newRegistry) ==
  LET index == findIndexForUpdate(imageRegistry.registries, newRegistry)
      args == [registryUrl |-> registryUrl, registry |-> newRegistry]
  IN /\ IF index = 0
          THEN /\ last' = [Quiet("updateRegistry", NOPID) EXCEPT
                             !.args = args, !.before = imageRegistry.registries,
                             !.result = "Registry " \o registryUrl \o " was not found"]
               /\ UNCHANGED imageRegistry
          ELSE /\ imageRegistry' =
                    [imageRegistry EXCEPT !.registries[index].username = newRegistry.username,
                                          !.registries[index].secret = newRegistry.secret]
               /\ last' = [Quiet("updateRegistry", NOPID) EXCEPT
                             !.args = args, !.before = imageRegistry.registries,
                             !.steps = <<"track:updateRegistry", "send:registry-update",
                                         "fire:onDidUpdateRegistry">>,
                             !.infos = <<newRegistry>>]
     /\ UNCHANGED <<registry, handles, calls, preflight, autostart, tickLog>>

(* Specification of the image registries: providers are registered and
   disposed, registries are created, updated and unregistered through their
   handles. *)

NextImageRegistry ==
  \/ \E name \in SOURCES : registerRegistryProvider(name)
  \/ \E h \in BagToSet(handles) : disposeRegistryProvider(h)
  \/ \E name \in SOURCES, options \in OPTIONS : createRegistry(name, options)
  \/ \E h \in BagToSet(handles) : disposeRegistry(h)
  \/ \E url \in URLS, r \in REGISTRIES : updateRegistry(url, r)

SpecImageRegistry == Init /\ [][NextImageRegistry]_vars

\* The indices of the stored registries that have the serverUrl and the
\* source of r
SameUrlAndSource(registries, r) ==
  {i \in 1 .. Len(registries) :
     registries[i].serverUrl = r.serverUrl /\ registries[i].source = r.source}

\* C39: updateRegistry(url, r) gives the username and the secret of r to the
\* stored registry that has the serverUrl and the source of r, changes no
\* other stored registry and fires one update event; with no such registry
\* stored it throws, changes nothing and fires no event.
UpdateChangesTheMatching ==
  last'.op = "updateRegistry" =>
    LET r == last'.args.registry
        registries == imageRegistry.registries
    IN IF SameUrlAndSource(registries, r) = {}
         THEN /\ last'.result # "ok"
              /\ imageRegistry' = imageRegistry
              /\ last'.steps = <<>>
         ELSE /\ last'.result = "ok"
              /\ \E i \in SameUrlAndSource(registries, r) :
                   imageRegistry'.registries =
                     [registries EXCEPT ![i].username = r.username,
                                        ![i].secret = r.secret]
              /\ imageRegistry'.providers = imageRegistry.providers
              /\ Occurrences(last'.steps, "fire:onDidUpdateRegistry") = 1

C39_UpdateChangesTheMatching == [][UpdateChangesTheMatching]_vars

\* C39, as the code has it: updateRegistry(url, r) gives the username and the
\* secret of r to the first stored registry that has the source of r,
\* whatever its serverUrl, changes no other and fires one update event about
\* r; it throws, changing nothing and firing nothing, only when no stored
\* registry has the source of r.
UpdateChangesFirstOfSource ==
  last'.op = "updateRegistry" =>
    LET r == last'.args.registry
        registries == imageRegistry.registries
        ofSource == {i \in 1 .. Len(registries) : registries[i].source = r.source}
    IN IF ofSource = {}
         THEN /\ last'.result = "Registry " \o last'.args.registryUrl \o " was not found"
              /\ imageRegistry' = imageRegistry
              /\ last'.steps = <<>>
         ELSE /\ last'.result = "ok"
              /\ \E i \in ofSource :
                   /\ \A j \in ofSource : i <= j
                   /\ imageRegistry'.registries =
                        [registries EXCEPT ![i].username = r.username,
                                           ![i].secret = r.secret]
              /\ imageRegistry'.providers = imageRegistry.providers
              /\ Occurrences(last'.steps, "fire:onDidUpdateRegistry") = 1
              /\ last'.infos = <<r>>

C39_UpdateChangesFirstOfSource == [][UpdateChangesFirstOfSource]_vars

\* Two registries of one provider are stored and the second was updated: the
\* first has the new user name and the second the one it had.
C39_Witness ==
  /\ last.op = "updateRegistry"
  /\ last.result = "ok"
  /\ Len(last.before) = 2
  /\ last.before[1].source = last.args.registry.source
  /\ last.before[1].serverUrl # last.args.registry.serverUrl
  /\ last.before[2].source = last.args.registry.source
  /\ last.before[2].serverUrl = last.args.registry.serverUrl
  /\ last.before[1].username # last.args.registry.username
  /\ last.before[2].username # last.args.registry.username
  /\ imageRegistry.registries[1].username = last.args.registry.username
  /\ imageRegistry.registries[2] = last.before[2]

\* An update of a registry that is not stored did not throw: it changed the
\* registry the provider has at another serverUrl.
C39_WitnessNotStored ==
  /\ last.op = "updateRegistry"
  /\ last.result = "ok"
  /\ SameUrlAndSource(last.before, last.args.registry) = {}
  /\ imageRegistry.registries # last.before

\* C40: no two stored registries have the same serverUrl and source.  A
\* createRegistry for a provider name that is not registered, or for a
\* serverUrl and provider name that a stored registry has, throws, leaves the
\* registries and the handles as they were and fires no event; any other
\* createRegistry appends one registry, that of the provider name and the
\* options, and fires one register event about it.  Disposing the handle it
\* returned takes that registry out, leaving the others in their order, and
\* fires one unregister event.
CreateRegistryStoresNoDuplicate ==
  /\ \A i, j \in 1 .. Len(imageRegistry'.registries) :
       ( /\ imageRegistry'.registries[i].serverUrl = imageRegistry'.registries[j].serverUrl
         /\ imageRegistry'.registries[i].source = imageRegistry'.registries[j].source )
       => i = j
  /\ last'.op = "createRegistry" =>
       LET providerName == last'.args.providerName
           options == last'.args.options
           registries == imageRegistry.registries
       IN IF \/ providerName \notin imageRegistry.providers
             \/ \E i \in 1 .. Len(registries) :
                  /\ registries[i].serverUrl = options.serverUrl
                  /\ registries[i].source = providerName
            THEN /\ last'.result # "ok"
                 /\ imageRegistry' = imageRegistry
                 /\ handles' = handles
                 /\ last'.steps = <<>>
            ELSE /\ last'.result = "ok"
                 /\ imageRegistry'.registries =
                      Append(registries,
                             [serverUrl |-> options.serverUrl, source |-> providerName,
                              username |-> options.username, secret |-> options.secret])
                 /\ Occurrences(last'.steps, "fire:onDidRegisterRegistry") = 1
                 /\ last'.infos = << imageRegistry'.registries[Len(registries) + 1] >>
                 /\ BagCardinality(handles') = BagCardinality(handles) + 1
  /\ last'.op = "disposeRegistry" =>
       /\ Len(imageRegistry'.registries) = Len(imageRegistry.registries) - 1
       /\ imageRegistry'.registries =
            SelectSeq(imageRegistry.registries,
                      LAMBDA x : RegistryOf(x.serverUrl, x.source) # last'.args)
       /\ Occurrences(last'.steps, "fire:onDidUnregisterRegistry") = 1
       /\ last'.infos = << last'.args >>
       /\ BagCardinality(handles') = BagCardinality(handles) - 1

C40_WitnessNoProvider ==
  /\ last.op = "createRegistry"
  /\ last.result = "Provider P1 not found"
  /\ \E i \in 1 .. Len(imageRegistry.registries) :
       imageRegistry.registries[i].source = "P1"

\* The handle of the first of two registries has just been disposed.
C40_WitnessDisposed ==
  /\ last.op = "disposeRegistry"
  /\ Len(last.before) = 2
  /\ RegistryOf(last.before[1].serverUrl, last.before[1].source) = last.args
  /\ imageRegistry.registries = << last.before[2] >>

====
